---- MODULE Spec2Model ----
(***************************************************************************)
(* Model of debug-tracer's file-output subsystem: the buffered writer      *)
(* DebugFileWriter (fileWriter.ts), its mode policy and its flush policy.  *)
(*                                                                         *)
(* JavaScript runs every handler to completion on one thread, so each      *)
(* public method of the writer and the setInterval callback is one atomic  *)
(* action.  The statements inside a try block may throw (JSON.stringify on *)
(* a value it cannot serialise, a failing stream write); the environment   *)
(* chooses whether and where, through the parameter failAt of the actions  *)
(* that flush.                                                             *)
(***************************************************************************)
EXTENDS Integers, Sequences, FiniteSets, TLC

\* ------------------------------------------------------------------ bounds
\* Number of write calls explored.
MaxWrites == 3
\* Number of flushes the environment may make fail.
MaxFailures == 1
\* Largest explicitly configured maxBufferSize explored.
MaxThreshold == 2
\* Number of setRequestId calls explored.
MaxRequestCalls == 1

\* ------------------------------------------------------- program constants
DefaultMaxBufferSize == 100
MaxDepth == 3
ArrayLimit == 5
KeyLimit == 10
StringLimit == 200

\* ------------------------------------------------------------- JSON values
\* A payload is a tagged value: undefined, null, number, boolean, string,
\* array (ordered items) or object (ordered key/value pairs).
Undef == [t |-> "undefined"]
Null == [t |-> "null"]
Num(n) == [t |-> "num", n |-> n]
Bool(b) == [t |-> "bool", b |-> b]
\* A string: the text s, of which the first `keep` characters are kept,
\* followed by `suffix`.
Str(s, n) == [t |-> "str", s |-> s, keep |-> n, suffix |-> ""]
Arr(items) == [t |-> "arr", items |-> items]
Obj(kv) == [t |-> "obj", kv |-> kv]
KV(k, v) == [k |-> k, v |-> v]

\* typeof data === 'object' && data !== null
IsObject(data) == data.t \in {"arr", "obj"}

\* key in data, for the string keys the writer asks about (none of them is
\* an array index or an array property)
HasKey(data, key) ==
  /\ data.t = "obj"
  /\ \E i \in 1..Len(data.kv) : data.kv[i].k = key

\* data[key]: the value of the last pair with that key
Get(data, key) ==
  LET idx == {i \in 1..Len(data.kv) : data.kv[i].k = key}
  IN data.kv[CHOOSE i \in idx : \A j \in idx : j <= i].v

FileModes == {"minimal", "detailed", "full"}

\* ------------------------------------------------------------ mode policy
\* Variant of shouldWrite: no mode filters anything.
shouldWriteEverything(fileMode, namespace, data) == TRUE

\* Variant of shouldWrite: minimal mode tests typeof data === 'object' only,
\* not the duration and elapsed keys.
shouldWriteAnyObject(fileMode, namespace, data) ==
  CASE fileMode = "minimal" ->
         \/ namespace = "performance"
         \/ namespace = "timing"
         \/ IsObject(data)
    [] fileMode = "detailed" -> namespace \notin {"trace", "verbose", "debug"}
    [] OTHER -> TRUE

\* Variant of shouldWrite: detailed mode skips the namespaces by substring
\* match without regard to case.
shouldWriteSkipsPerformance(fileMode, namespace, data) ==
  CASE fileMode = "minimal" ->
         \/ namespace = "performance"
         \/ namespace = "timing"
         \/ (IsObject(data) /\ (HasKey(data, "duration") \/ HasKey(data, "elapsed")))
    [] fileMode = "detailed" ->
         namespace \notin {"trace", "verbose", "debug", "Performance"}
    [] OTHER -> TRUE

shouldWrite(mode, namespace, data) ==
  CASE mode = "minimal" ->
         \/ namespace = "performance"
         \/ namespace = "timing"
         \/ (IsObject(data) /\ (HasKey(data, "duration") \/ HasKey(data, "elapsed")))
    [] mode = "detailed" -> namespace \notin {"trace", "verbose", "debug"}
    [] OTHER -> TRUE

EssentialKeys == <<"duration", "elapsed", "timing", "error", "status", "count">>

RECURSIVE pickEssential(_, _)
pickEssential(data, i) ==
  IF i > Len(EssentialKeys) THEN <<>>
  ELSE LET key == EssentialKeys[i]
       IN (IF HasKey(data, key) THEN <<KV(key, Get(data, key))>> ELSE <<>>)
          \o pickEssential(data, i + 1)

TruncationMarker == Str("[truncated]", 11)

\* Variant of truncate: the depth test is > instead of >=.
RECURSIVE truncateOffByOne(_, _)
truncateOffByOne(data, currentDepth) ==
  IF currentDepth > MaxDepth THEN TruncationMarker
  ELSE IF data.t = "arr" THEN
    LET n == IF Len(data.items) < ArrayLimit THEN Len(data.items) ELSE ArrayLimit
    IN Arr([i \in 1..n |-> truncateOffByOne(data.items[i], currentDepth + 1)])
  ELSE IF data.t = "obj" THEN
    LET n == Len(data.kv)
        kept == IF n <= KeyLimit + 1 THEN n ELSE KeyLimit + 1
        head == [i \in 1..kept |->
                   KV(data.kv[i].k, truncateOffByOne(data.kv[i].v, currentDepth + 1))]
    IN Obj(IF n > KeyLimit + 1
           THEN head \o <<KV("...", Str("truncated", 9))>>
           ELSE head)
  ELSE IF data.t = "str" /\ data.keep > StringLimit THEN
    [t |-> "str", s |-> data.s, keep |-> StringLimit, suffix |-> "...[truncated]"]
  ELSE data

\* Variant of truncate: arrays are not sliced.
RECURSIVE truncateWholeArrays(_, _)
truncateWholeArrays(data, currentDepth) ==
  IF currentDepth >= MaxDepth THEN TruncationMarker
  ELSE IF data.t = "arr" THEN
    Arr([i \in 1..Len(data.items) |->
           truncateWholeArrays(data.items[i], currentDepth + 1)])
  ELSE IF data.t = "obj" THEN
    LET n == Len(data.kv)
        kept == IF n <= KeyLimit + 1 THEN n ELSE KeyLimit + 1
        head == [i \in 1..kept |->
                   KV(data.kv[i].k, truncateWholeArrays(data.kv[i].v, currentDepth + 1))]
    IN Obj(IF n > KeyLimit + 1
           THEN head \o <<KV("...", Str("truncated", 9))>>
           ELSE head)
  ELSE IF data.t = "str" /\ data.keep > StringLimit THEN
    [t |-> "str", s |-> data.s, keep |-> StringLimit, suffix |-> "...[truncated]"]
  ELSE data

\* Variant of truncate: the key test is count++ >= 10, so ten pairs are
\* stored before the marker.
RECURSIVE truncateTenKeys(_, _)
truncateTenKeys(data, currentDepth) ==
  IF currentDepth >= MaxDepth THEN TruncationMarker
  ELSE IF data.t = "arr" THEN
    LET n == IF Len(data.items) < ArrayLimit THEN Len(data.items) ELSE ArrayLimit
    IN Arr([i \in 1..n |-> truncateTenKeys(data.items[i], currentDepth + 1)])
  ELSE IF data.t = "obj" THEN
    LET n == Len(data.kv)
        kept == IF n <= KeyLimit THEN n ELSE KeyLimit
        head == [i \in 1..kept |->
                   KV(data.kv[i].k, truncateTenKeys(data.kv[i].v, currentDepth + 1))]
    IN Obj(IF n > KeyLimit
           THEN head \o <<KV("...", Str("truncated", 9))>>
           ELSE head)
  ELSE IF data.t = "str" /\ data.keep > StringLimit THEN
    [t |-> "str", s |-> data.s, keep |-> StringLimit, suffix |-> "...[truncated]"]
  ELSE data

\* Variant of truncate: the loop breaks without setting the '...' key.
RECURSIVE truncateNoMarkerKey(_, _)
truncateNoMarkerKey(data, currentDepth) ==
  IF currentDepth >= MaxDepth THEN TruncationMarker
  ELSE IF data.t = "arr" THEN
    LET n == IF Len(data.items) < ArrayLimit THEN Len(data.items) ELSE ArrayLimit
    IN Arr([i \in 1..n |-> truncateNoMarkerKey(data.items[i], currentDepth + 1)])
  ELSE IF data.t = "obj" THEN
    LET n == Len(data.kv)
        kept == IF n <= KeyLimit + 1 THEN n ELSE KeyLimit + 1
    IN Obj([i \in 1..kept |->
              KV(data.kv[i].k, truncateNoMarkerKey(data.kv[i].v, currentDepth + 1))])
  ELSE IF data.t = "str" /\ data.keep > StringLimit THEN
    [t |-> "str", s |-> data.s, keep |-> StringLimit, suffix |-> "...[truncated]"]
  ELSE data

RECURSIVE truncate(_, _)
truncate(data, currentDepth) ==
  IF currentDepth >= MaxDepth THEN TruncationMarker
  ELSE IF data.t = "arr" THEN
    LET n == IF Len(data.items) < ArrayLimit THEN Len(data.items) ELSE ArrayLimit
    IN Arr([i \in 1..n |-> truncate(data.items[i], currentDepth + 1)])
  ELSE IF data.t = "obj" THEN
    \* the loop stores the pairs whose index is at most KeyLimit + 1 and, if
    \* there is a further pair, sets the '...' key and stops
    LET n == Len(data.kv)
        kept == IF n <= KeyLimit + 1 THEN n ELSE KeyLimit + 1
        head == [i \in 1..kept |->
                   KV(data.kv[i].k, truncate(data.kv[i].v, currentDepth + 1))]
    IN Obj(IF n > KeyLimit + 1
           THEN head \o <<KV("...", Str("truncated", 9))>>
           ELSE head)
  ELSE IF data.t = "str" /\ data.keep > StringLimit THEN
    [t |-> "str", s |-> data.s, keep |-> StringLimit, suffix |-> "...[truncated]"]
  ELSE data

\* Variant of processData: minimal mode returns the whole object when it
\* has an essential key.
processDataKeepsObject(fileMode, data) ==
  IF fileMode = "minimal" /\ IsObject(data) THEN
    IF Len(pickEssential(data, 1)) > 0 THEN data ELSE Undef
  ELSE IF fileMode = "detailed" THEN truncate(data, 0)
  ELSE data

processData(mode, data) ==
  IF mode = "minimal" /\ IsObject(data) THEN
    LET essential == pickEssential(data, 1)
    IN IF Len(essential) > 0 THEN Obj(essential) ELSE Undef
  ELSE IF mode = "detailed" THEN truncate(data, 0)
  ELSE data

\* ------------------------------------------------------------ writer state
VARIABLES
  mode,              \* this.mode
  maxBufferSize,     \* this.maxBufferSize
  buffer,            \* this.buffer: the pending entries
  flushInterval,     \* this.flushInterval: TRUE while the interval timer is set
  fileStream,        \* this.fileStream: "open", or "null"
  currentRequestId,  \* this.currentRequestId
  file,              \* the lines appended to the target, in order
  errorLog,          \* the console.error channel
  thrown,            \* an exception has reached the caller of the writer
  clock,             \* the number of write calls so far; stands for new Date()
  accepted,          \* history: the entries built by write, in call order
  last,              \* history: the last operation and what its flush did
  writesOnly,        \* history: no flush(), timer tick or destroy() ran so far
  requestCalls,      \* history: the number of setRequestId calls so far
  heap,              \* the caller's objects, by address (used by AliasSpec)
  probe,             \* the call the application makes (PolicySpec, AliasSpec)
  logExists,         \* the log file the CLI is pointed at exists
  report,            \* what the last run of the CLI printed and its exit code
  localStorage,      \* the browser's stored log list (key debug_tracer_logs)
  globalEnabled,     \* DebugTracer.globalEnabled
  enabledNamespaces, \* DebugTracer.enabledNamespaces
  consoleLines,      \* the lines DebugTracer.log wrote with console.log
  fileWriter         \* DebugTracer.fileWriter is set (TRUE) or null (FALSE)

vars == <<mode, maxBufferSize, buffer, flushInterval, fileStream,
          currentRequestId, file, errorLog, thrown, clock, accepted, last,
          writesOnly, requestCalls, heap, probe, logExists, report,
          localStorage, globalEnabled, enabledNamespaces, consoleLines, fileWriter>>

\* what the writer's own operations never touch
aux == <<heap, probe, logExists, report, localStorage>>

\* the fields of the tracer in front of the writer, and its console output
tracer == <<globalEnabled, enabledNamespaces, consoleLines, fileWriter>>

NoHeap == <<>>
NoProbe == [stage |-> "none"]
NoReport == [command |-> "none"]

\* no CLI has run and there is no file for it
NoCli == logExists = FALSE /\ report = NoReport

\* localStorage.getItem('debug_tracer_logs') is null: no list is stored
NoItem == <<>>

\* the program does not run in a browser
NoBrowser == localStorage = NoItem

\* the writer is used directly, without a tracer in front of it
NoTracer ==
  /\ globalEnabled = FALSE
  /\ enabledNamespaces = {}
  /\ consoleLines = <<>>
  /\ fileWriter = FALSE

NoRequest == "null"
RequestIds == {"r1"}
\* the empty string: a string, and falsy
EmptyRequestId == ""

\* if (this.currentRequestId): null and '' are falsy
Truthy(requestId) == requestId # NoRequest /\ requestId # EmptyRequestId

\* The calls of write that are explored: a namespace, a message, a payload.
WriteArgs ==
  { [namespace |-> "performance", message |-> "op1",
     data |-> Obj(<<KV("duration", Num(10)), KV("user", Num(1))>>)],
    [namespace |-> "debug", message |-> "x", data |-> Undef] }

\* config?.maxBufferSize: 0 stands for a configuration that leaves it out
ConfiguredSizes == 0..MaxThreshold

SessionMarker == [kind |-> "marker"]

\* A reference to an object of the caller, by address: what an entry holds
\* where the writer stored the caller's object instead of a copy.
Ref(a) == [t |-> "ref", a |-> a]

\* the value reached from data in the heap h: every reference replaced by
\* the object it points to at this moment
RECURSIVE DerefIn(_, _)
DerefIn(h, data) ==
  IF data.t = "ref" THEN DerefIn(h, h[data.a])
  ELSE IF data.t = "arr"
  THEN Arr([i \in 1..Len(data.items) |-> DerefIn(h, data.items[i])])
  ELSE IF data.t = "obj"
  THEN Obj([i \in 1..Len(data.kv) |-> KV(data.kv[i].k, DerefIn(h, data.kv[i].v))])
  ELSE data

\* JSON.stringify(entry) + '\n': one line holding the entry's own fields; a
\* field whose value is undefined is left out of the text.  The text is
\* built when flush runs, from the objects as they are then.
JSONstringify(entry) ==
  [kind |-> "json", timestamp |-> entry.timestamp,
   namespace |-> entry.namespace, message |-> entry.message,
   hasData |-> entry.data # Undef, data |-> DerefIn(heap, entry.data),
   hasMetadata |-> entry.requestId # NoRequest, requestId |-> entry.requestId]

\* Variant of initializeFile: the catch block leaves the stream set.
initializeFileKeepsStream(ok) ==
  IF ok
  THEN [fileStream |-> "open", file |-> <<SessionMarker>>, errorLog |-> <<>>]
  ELSE [fileStream |-> "open", file |-> <<>>, errorLog |-> <<"init">>]

\* initializeFile: ok = FALSE when a statement of its try block throws
initializeFile(ok) ==
  IF ok
  THEN [fileStream |-> "open", file |-> <<SessionMarker>>, errorLog |-> <<>>]
  ELSE [fileStream |-> "null", file |-> <<>>, errorLog |-> <<"init">>]

\* new DebugFileWriter(config): the writer's fields after the constructor
construct(cfgMode, cfgSize, ok) ==
  LET opened == initializeFile(ok)
  IN /\ mode = cfgMode
     /\ maxBufferSize = (IF cfgSize = 0 THEN DefaultMaxBufferSize ELSE cfgSize)
     /\ buffer = <<>>
     /\ flushInterval = TRUE
     /\ fileStream = opened.fileStream
     /\ currentRequestId = NoRequest
     /\ file = opened.file
     /\ errorLog = opened.errorLog
     /\ thrown = FALSE
     /\ clock = 0
     /\ accepted = <<>>
     /\ last = [op |-> "construct", outcome |-> "none", open |-> ok]
     /\ writesOnly = TRUE
     /\ requestCalls = 0

Init ==
  \E cfgMode \in FileModes, cfgSize \in ConfiguredSizes, ok \in BOOLEAN :
    /\ construct(cfgMode, cfgSize, ok)
    /\ heap = NoHeap
    /\ probe = NoProbe
    /\ NoCli
    /\ NoBrowser
    /\ NoTracer

\* The number of flush failures reported so far.
FlushErrors == Cardinality({i \in 1..Len(errorLog) : errorLog[i] = "flush"})

\* Where the environment may make a flush of buf fail: 0 is nowhere, k > 0 is
\* while entry k is serialised and written.
FailPoints(buf) ==
  IF FlushErrors < MaxFailures /\ fileStream # "null" THEN 0..Len(buf) ELSE {0}

\* Variant of flush: a successful flush does not clear the buffer.
flushKeepsBuffer(buf, stream, lines, failAt) ==
  IF Len(buf) = 0 \/ stream = "null"
  THEN [buffer |-> buf, file |-> lines, outcome |-> "none", thrown |-> FALSE]
  ELSE IF failAt = 0
  THEN [buffer |-> buf,
        file |-> lines \o [i \in 1..Len(buf) |-> JSONstringify(buf[i])],
        outcome |-> "flushed", thrown |-> FALSE]
  ELSE [buffer |-> buf,
        file |-> lines \o [i \in 1..(failAt - 1) |-> JSONstringify(buf[i])],
        outcome |-> "failed", thrown |-> FALSE]

\* Variant of flush: the entries are written last first.
flushReversed(buf, stream, lines, failAt) ==
  IF Len(buf) = 0 \/ stream = "null"
  THEN [buffer |-> buf, file |-> lines, outcome |-> "none", thrown |-> FALSE]
  ELSE IF failAt = 0
  THEN [buffer |-> <<>>,
        file |-> lines \o [i \in 1..Len(buf) |-> JSONstringify(buf[Len(buf) + 1 - i])],
        outcome |-> "flushed", thrown |-> FALSE]
  ELSE [buffer |-> buf,
        file |-> lines \o [i \in 1..(failAt - 1) |-> JSONstringify(buf[Len(buf) + 1 - i])],
        outcome |-> "failed", thrown |-> FALSE]

\* Variant of flush: the buffer is cleared before the writes, so a failed
\* flush loses it.
flushDropsOnFailure(buf, stream, lines, failAt) ==
  IF Len(buf) = 0 \/ stream = "null"
  THEN [buffer |-> buf, file |-> lines, outcome |-> "none", thrown |-> FALSE]
  ELSE IF failAt = 0
  THEN [buffer |-> <<>>,
        file |-> lines \o [i \in 1..Len(buf) |-> JSONstringify(buf[i])],
        outcome |-> "flushed", thrown |-> FALSE]
  ELSE [buffer |-> <<>>,
        file |-> lines \o [i \in 1..(failAt - 1) |-> JSONstringify(buf[i])],
        outcome |-> "failed", thrown |-> FALSE]

\* Variant of flush: no try/catch around the writes.
flushUncaught(buf, stream, lines, failAt) ==
  IF Len(buf) = 0 \/ stream = "null"
  THEN [buffer |-> buf, file |-> lines, outcome |-> "none", thrown |-> FALSE]
  ELSE IF failAt = 0
  THEN [buffer |-> <<>>,
        file |-> lines \o [i \in 1..Len(buf) |-> JSONstringify(buf[i])],
        outcome |-> "flushed", thrown |-> FALSE]
  ELSE [buffer |-> buf,
        file |-> lines \o [i \in 1..(failAt - 1) |-> JSONstringify(buf[i])],
        outcome |-> "failed", thrown |-> TRUE]

\* Variant of flush: the loop stops one entry early and the buffer is cleared.
flushSkipsLast(buf, stream, lines, failAt) ==
  IF Len(buf) = 0 \/ stream = "null"
  THEN [buffer |-> buf, file |-> lines, outcome |-> "none", thrown |-> FALSE]
  ELSE IF failAt = 0
  THEN [buffer |-> <<>>,
        file |-> lines \o [i \in 1..(Len(buf) - 1) |-> JSONstringify(buf[i])],
        outcome |-> "flushed", thrown |-> FALSE]
  ELSE [buffer |-> buf,
        file |-> lines \o [i \in 1..(failAt - 1) |-> JSONstringify(buf[i])],
        outcome |-> "failed", thrown |-> FALSE]

\* Variant of flush: the target is not looked at.
flushWithoutTarget(buf, stream, lines, failAt) ==
  IF Len(buf) = 0
  THEN [buffer |-> buf, file |-> lines, outcome |-> "none", thrown |-> FALSE]
  ELSE IF failAt = 0
  THEN [buffer |-> <<>>,
        file |-> lines \o [i \in 1..Len(buf) |-> JSONstringify(buf[i])],
        outcome |-> "flushed", thrown |-> FALSE]
  ELSE [buffer |-> buf,
        file |-> lines \o [i \in 1..(failAt - 1) |-> JSONstringify(buf[i])],
        outcome |-> "failed", thrown |-> FALSE]

\* flush(): its effect on the buffer, the file and the error channel.
flush(buf, stream, lines, failAt) ==
  IF Len(buf) = 0 \/ stream = "null"
  THEN [buffer |-> buf, file |-> lines, outcome |-> "none", thrown |-> FALSE]
  ELSE IF failAt = 0
  THEN [buffer |-> <<>>,
        file |-> lines \o [i \in 1..Len(buf) |-> JSONstringify(buf[i])],
        outcome |-> "flushed", thrown |-> FALSE]
  ELSE [buffer |-> buf,
        file |-> lines \o [i \in 1..(failAt - 1) |-> JSONstringify(buf[i])],
        outcome |-> "failed", thrown |-> FALSE]

Report(outcome) == IF outcome = "failed" THEN Append(errorLog, "flush") ELSE errorLog

\* Variant of NewEntry: the metadata test is !== null, so the empty string
\* is attached too.
NewEntryUnlessNull(args) ==
  [timestamp |-> clock + 1, namespace |-> args.namespace,
   message |-> args.message,
   data |-> IF args.data # Undef THEN processData(mode, args.data) ELSE Undef,
   requestId |-> IF currentRequestId # NoRequest THEN currentRequestId
                 ELSE NoRequest]

\* the entry write builds
NewEntry(args) ==
  [timestamp |-> clock + 1, namespace |-> args.namespace,
   message |-> args.message,
   data |-> IF args.data # Undef THEN processData(mode, args.data) ELSE Undef,
   requestId |-> IF Truthy(currentRequestId) THEN currentRequestId ELSE NoRequest]

\* Variant of Push: the entry is pushed twice.
PushTwice(buf, entry) == Append(Append(buf, entry), entry)

\* this.buffer.push(entry)
Push(buf, entry) == Append(buf, entry)

\* Variant of BufferFull: the capacity test is strict.
BufferFullStrict(buf) == Len(buf) > maxBufferSize

\* the capacity test of write
BufferFull(buf) == Len(buf) >= maxBufferSize

write(args, failAt) ==
  /\ clock < MaxWrites
  /\ clock' = clock + 1
  /\ IF ~shouldWrite(mode, args.namespace, args.data)
     THEN /\ failAt = 0
          /\ last' = [op |-> "rejected", outcome |-> "none", open |-> fileStream # "null"]
          /\ UNCHANGED <<buffer, file, errorLog, thrown, accepted>>
     ELSE LET pushed == Push(buffer, NewEntry(args))
              r == IF BufferFull(pushed)
                   THEN flush(pushed, fileStream, file, failAt)
                   ELSE [buffer |-> pushed, file |-> file, outcome |-> "none",
                         thrown |-> FALSE]
          IN /\ failAt \in (IF BufferFull(pushed) THEN FailPoints(pushed) ELSE {0})
             /\ buffer' = r.buffer
             /\ file' = r.file
             /\ errorLog' = Report(r.outcome)
             /\ thrown' = (thrown \/ r.thrown)
             /\ accepted' = Append(accepted, NewEntry(args))
             /\ last' = [op |-> "write", outcome |-> r.outcome, open |-> fileStream # "null"]
  /\ UNCHANGED <<mode, maxBufferSize, flushInterval, fileStream, currentRequestId,
                 writesOnly, requestCalls, aux>>

Write ==
  /\ \E args \in WriteArgs, failAt \in 0..MaxWrites : write(args, failAt)
  /\ UNCHANGED tracer

\* a flush() call, named op in the history
FlushCall(op, failAt) ==
  LET r == flush(buffer, fileStream, file, failAt)
  IN /\ failAt \in FailPoints(buffer)
     /\ buffer' = r.buffer
     /\ file' = r.file
     /\ errorLog' = Report(r.outcome)
     /\ thrown' = (thrown \/ r.thrown)
     /\ last' = [op |-> op, outcome |-> r.outcome, open |-> fileStream # "null"]
     /\ writesOnly' = FALSE
     /\ UNCHANGED <<mode, maxBufferSize, currentRequestId, clock, accepted,
                    requestCalls, aux, tracer>>

\* flush() called by the application
ManualFlush ==
  \E failAt \in 0..MaxWrites :
    FlushCall("flush", failAt) /\ UNCHANGED <<flushInterval, fileStream>>

\* Variant of TimerTick: the callback does not flush.
TimerTickIdle ==
  /\ flushInterval
  /\ last' = [op |-> "timer", outcome |-> "none", open |-> fileStream # "null"]
  /\ writesOnly' = FALSE
  /\ UNCHANGED <<mode, maxBufferSize, buffer, flushInterval, fileStream,
                 currentRequestId, file, errorLog, thrown, clock, accepted,
                 requestCalls, aux, tracer>>

\* the setInterval callback: runs while the interval is set
TimerTick ==
  /\ flushInterval
  /\ \E failAt \in 0..MaxWrites :
       FlushCall("timer", failAt) /\ UNCHANGED <<flushInterval, fileStream>>

\* this.currentRequestId = requestId
assignRequestId(requestId) ==
  /\ currentRequestId' = requestId
  /\ last' = [op |-> "setRequestId", outcome |-> "none", open |-> fileStream # "null"]
  /\ UNCHANGED <<mode, maxBufferSize, buffer, flushInterval, fileStream, file,
                 errorLog, thrown, clock, accepted, writesOnly, aux, tracer>>

setRequestId(requestId) ==
  /\ requestCalls < MaxRequestCalls
  /\ requestCalls' = requestCalls + 1
  /\ assignRequestId(requestId)

SetRequestId == \E requestId \in RequestIds \cup {NoRequest} : setRequestId(requestId)

\* Variant of destroy: the stream is ended before the final flush.
destroyClosesFirst ==
  /\ flushInterval' = FALSE
  /\ fileStream' = "null"
  /\ last' = [op |-> "destroy", outcome |-> "none", open |-> fileStream # "null"]
  /\ writesOnly' = FALSE
  /\ UNCHANGED <<mode, maxBufferSize, buffer, currentRequestId, file, errorLog,
                 thrown, clock, accepted, requestCalls, aux, tracer>>

\* Variant of destroy: the stream is ended but the field is not set to null.
destroyKeepsStream ==
  \E failAt \in 0..MaxWrites :
    /\ FlushCall("destroy", failAt)
    /\ flushInterval' = FALSE
    /\ fileStream' = fileStream

\* destroy(): clears the interval, flushes, ends the stream
destroy ==
  \E failAt \in 0..MaxWrites :
    /\ FlushCall("destroy", failAt)
    /\ flushInterval' = FALSE
    /\ fileStream' = "null"

Next == Write \/ ManualFlush \/ TimerTick \/ SetRequestId \/ destroy

Spec == Init /\ [][Next]_vars

\* the interval timer keeps firing while it is set
FairSpec == Spec /\ WF_vars(TimerTick)

\* ------------------------------------------------- a fixed sequence of calls
\* write("performance","op1",{duration:10}); write("debug","x");
\* write("performance","op2",{duration:20}), issued in this order while the
\* timer, the application's flush, setRequestId and destroy may run between
\* them
ScenarioCalls ==
  << [namespace |-> "performance", message |-> "op1",
      data |-> Obj(<<KV("duration", Num(10))>>)],
     [namespace |-> "debug", message |-> "x", data |-> Undef],
     [namespace |-> "performance", message |-> "op2",
      data |-> Obj(<<KV("duration", Num(20))>>)] >>

\* the next call of the sequence
ScenarioWrite ==
  /\ clock < Len(ScenarioCalls)
  /\ \E failAt \in 0..MaxWrites : write(ScenarioCalls[clock + 1], failAt)
  /\ UNCHANGED tracer

\* string | null
AnyRequestIds == RequestIds \cup {EmptyRequestId, NoRequest}

\* setRequestId called any number of times
SetAnyRequestId ==
  \E requestId \in AnyRequestIds :
    assignRequestId(requestId) /\ UNCHANGED requestCalls

ScenarioNext ==
  ScenarioWrite \/ ManualFlush \/ TimerTick \/ SetAnyRequestId \/ destroy

ScenarioSpec == Init /\ [][ScenarioNext]_vars

\* ---------------------------------------------- one call, any payload
\* Length of the long input array.
BigArrayLen == 20
\* Nesting depth of the deep payloads.
DeepNesting == 5

Namespaces ==
  {"performance", "timing", "trace", "verbose", "debug", "api", "Performance"}

\* n objects (n arrays), one inside the other, around a number
RECURSIVE NestObj(_)
NestObj(n) == IF n = 0 THEN Num(1) ELSE Obj(<<KV("level", NestObj(n - 1))>>)

RECURSIVE NestArr(_)
NestArr(n) == IF n = 0 THEN Num(1) ELSE Arr(<<NestArr(n - 1)>>)

\* [1, 2, ..., n]
Range(n) == Arr([i \in 1..n |-> Num(i)])

\* Number of keys of the large input mapping.
ManyKeys == 15

KeyNames ==
  <<"k01", "k02", "k03", "k04", "k05", "k06", "k07", "k08", "k09", "k10",
    "k11", "k12", "k13", "k14", "k15", "k16", "k17">>

\* {k01: 1, k02: 2, ..., kn: n}
Keyed(n) == Obj([i \in 1..n |-> KV(KeyNames[i], Num(i))])

\* The data arguments explored.  The values inside a payload are values
\* JSON can carry (no undefined, function or cycle), so that the line
\* JSON.stringify writes holds the shaped payload itself.  No mapping has a
\* key named '...', the key truncate uses for its marker.
Payloads ==
  { Undef, Null, Num(0), Num(42), Bool(FALSE), Str("", 0), Str("hello", 5),
    Str("long", StringLimit + 1),
    Arr(<<>>), Range(BigArrayLen), Range(ArrayLimit),
    Arr(<<Obj(<<KV("duration", Num(10))>>)>>),
    Arr([i \in 1..BigArrayLen |-> Range(i + 3)]),
    Obj(<<>>),
    Obj(<<KV("duration", Num(10))>>),
    Obj(<<KV("elapsed", Num(5)), KV("user", Str("ann", 3))>>),
    Obj(<<KV("user", Str("ann", 3)), KV("id", Num(7))>>),
    Obj(<<KV("status", Str("ok", 2))>>),
    Obj(<<KV("user", Num(1)), KV("count", Num(2)), KV("duration", Null),
          KV("error", Obj(<<KV("code", Num(500))>>)), KV("path", Str("/a", 2)),
          KV("timing", Range(2)), KV("status", Num(200)), KV("elapsed", Num(0))>>),
    Obj(<<KV("duration", Num(3)), KV("items", Range(BigArrayLen))>>),
    NestObj(DeepNesting), NestArr(DeepNesting), NestObj(MaxDepth),
    Keyed(KeyLimit), Keyed(KeyLimit + 1), Keyed(KeyLimit + 2), Keyed(ManyKeys),
    Obj(<<KV("inner", Keyed(ManyKeys))>>),
    Obj(<<KV("list", Arr(<<Obj(<<KV("inner",
            Arr(<<NestObj(DeepNesting - 3), Num(2)>>))>>), Num(3)>>))>>) }

\* write(namespace, message, data): the calls explored
PolicyCalls ==
  [namespace : Namespaces, message : {"m"}, data : Payloads]

\* a writer right after construction, and the call its application makes
PolicyInit ==
  \E cfgMode \in FileModes, cfgSize \in ConfiguredSizes, ok \in BOOLEAN :
    /\ construct(cfgMode, cfgSize, ok)
    /\ heap = NoHeap
    /\ probe \in PolicyCalls
    /\ NoCli
    /\ NoBrowser
    /\ NoTracer

\* the call
PolicyWrite ==
  /\ clock = 0
  /\ \E failAt \in 0..MaxWrites : write(probe, failAt)
  /\ UNCHANGED tracer

PolicyNext == PolicyWrite \/ ManualFlush \/ TimerTick \/ destroy

PolicySpec == PolicyInit /\ [][PolicyNext]_vars

\* -------------------------------------- one call, and a caller that mutates
\* The caller's objects: d = {duration: 10, error: n, user: 1} and
\* n = {code: 1}; d is the data argument of the call.
CallerHeap ==
  [d |-> Obj(<<KV("duration", Num(10)), KV("error", Ref("n")), KV("user", Num(1))>>),
   n |-> Obj(<<KV("code", Num(1))>>)]

\* What processData receives, as far as what it returns can share with the
\* caller: full mode returns the argument itself (return data), so the entry
\* holds the reference; minimal mode reads data[key] into a new object, so
\* the entry holds the top-level values and shares the nested objects;
\* truncate builds new arrays and objects all the way down, so the entry
\* shares nothing.
Passed ==
  IF mode = "full" THEN Ref("d")
  ELSE IF mode = "minimal" THEN heap["d"]
  ELSE DerefIn(heap, Ref("d"))

\* a writer right after construction, the caller's objects, and the call as
\* the caller sees its argument at that time
AliasInit ==
  \E cfgMode \in FileModes, cfgSize \in ConfiguredSizes, ok \in BOOLEAN :
    /\ construct(cfgMode, cfgSize, ok)
    /\ heap = CallerHeap
    /\ probe = [namespace |-> "performance", message |-> "m",
                data |-> DerefIn(CallerHeap, Ref("d"))]
    /\ NoCli
    /\ NoBrowser
    /\ NoTracer

\* write("performance", "m", d)
AliasWrite ==
  /\ clock = 0
  /\ \E failAt \in 0..MaxWrites :
       write([namespace |-> probe.namespace, message |-> probe.message,
              data |-> Passed], failAt)
  /\ UNCHANGED tracer

\* the assignments the caller may make after the call: d.duration = 99,
\* d.error.code = 2, and back
Assignments ==
  { <<"d", 1, Num(99)>>, <<"d", 1, Num(10)>>, <<"n", 1, Num(2)>>, <<"n", 1, Num(1)>> }

\* the caller assigns to a property of one of its objects; the writer does
\* not run
Mutate ==
  /\ clock >= 1
  /\ \E m \in Assignments :
       /\ heap[m[1]].kv[m[2]].v # m[3]
       /\ heap' = [heap EXCEPT ![m[1]].kv[m[2]].v = m[3]]
  /\ UNCHANGED <<mode, maxBufferSize, buffer, flushInterval, fileStream,
                 currentRequestId, file, errorLog, thrown, clock, accepted,
                 last, writesOnly, requestCalls, probe, logExists, report,
                 localStorage, tracer>>

AliasNext == AliasWrite \/ Mutate \/ ManualFlush \/ TimerTick \/ destroy

AliasSpec == AliasInit /\ [][AliasNext]_vars

\* ------------------------------------------------- the log-analysis CLI
\* (src/example.js, lines 84-471).  It runs as a process of its own on the
\* file a writer left behind: the lines of `file`.
\* Number of lines appended one by one to the file the CLI reads.
MaxLines == 3
\* Number of entries of a long file, more than the default limit.
BurstLen == 51
DefaultLimit == 50

\* lines that are not entries: the empty line, a line cut off after '{...'
\* by a partial write, and an entry line behind leading whitespace
BlankLine == [kind |-> "blank"]
CorruptLine == [kind |-> "corrupt"]
Indented(line) == [kind |-> "indented", line |-> line]

\* line.startsWith('{')
StartsWithBrace(line) == line.kind \in {"json", "corrupt"}

\* JSON.parse(line) returns (TRUE) or throws (FALSE)
Parses(line) == line.kind = "json"

\* JSON.parse(line): the entry, with the absent fields undefined
JSONparse(line) ==
  [timestamp |-> line.timestamp, namespace |-> line.namespace,
   message |-> line.message,
   data |-> IF line.hasData THEN line.data ELSE Undef,
   requestId |-> IF line.hasMetadata THEN line.requestId ELSE NoRequest]

\* Variant of readLogFile: every line that fails the test or the parse ends
\* the loop.
RECURSIVE readLogFileStopsAtBadLine(_)
readLogFileStopsAtBadLine(lines) ==
  IF lines = <<>> THEN <<>>
  ELSE IF StartsWithBrace(Head(lines)) /\ Parses(Head(lines))
  THEN <<JSONparse(Head(lines))>> \o readLogFileStopsAtBadLine(Tail(lines))
  ELSE <<>>

\* readLogFile: the entries of the lines that start with '{' and parse
RECURSIVE readLogFile(_)
readLogFile(lines) ==
  IF lines = <<>> THEN <<>>
  ELSE (IF StartsWithBrace(Head(lines)) /\ Parses(Head(lines))
        THEN <<JSONparse(Head(lines))>> ELSE <<>>)
       \o readLogFile(Tail(lines))

\* message.toLowerCase(), for the message texts explored
toLowerCase(message) ==
  CASE message = "Unhandled exception" -> "unhandled exception"
    [] message = "Request FAILED" -> "request failed"
    [] message = "Error in handler" -> "error in handler"
    [] OTHER -> message

\* text.includes(word), for the lower-case texts above
includes(text, word) ==
  <<text, word>> \in {<<"unhandled exception", "exception">>,
                      <<"request failed", "failed">>,
                      <<"error in handler", "error">>}

\* data?.key: undefined unless data is a mapping with that key
Prop(data, key) == IF HasKey(data, key) THEN Get(data, key) ELSE Undef

\* the truth value JavaScript gives a value in a condition
ToBoolean(value) ==
  CASE value.t \in {"undefined", "null"} -> FALSE
    [] value.t = "num" -> value.n # 0
    [] value.t = "bool" -> value.b
    [] value.t = "str" -> value.keep > 0
    [] OTHER -> TRUE

\* a || b
OrElse(a, b) == IF ToBoolean(a) THEN a ELSE b

\* analyzeCommand's error filter (example.js:174-178)
IsErrorForAnalyze(log) ==
  \/ ToBoolean(Prop(log.data, "error"))
  \/ includes(toLowerCase(log.message), "error")
  \/ includes(toLowerCase(log.message), "failed")

\* errorsCommand's filter (example.js:339-345); no parsed entry has a level
\* field, the writer's entries having none
IsErrorForErrors(log) ==
  \/ ToBoolean(Prop(log.data, "error"))
  \/ includes(toLowerCase(log.message), "error")
  \/ includes(toLowerCase(log.message), "failed")
  \/ includes(toLowerCase(log.message), "exception")

\* analyzeCommand's performance filter (example.js:191-195)
IsPerfForAnalyze(log) ==
  \/ ToBoolean(Prop(log.data, "duration"))
  \/ ToBoolean(Prop(log.data, "elapsed"))
  \/ ToBoolean(Prop(log.data, "timing"))

\* perfCommand's filter (example.js:369-374)
IsPerfForPerf(log) ==
  \/ log.namespace = "performance"
  \/ ToBoolean(Prop(log.data, "duration"))
  \/ ToBoolean(Prop(log.data, "elapsed"))
  \/ ToBoolean(Prop(log.data, "timing"))

HasDuration(log) == ToBoolean(Prop(log.data, "duration"))

RECURSIVE Sum(_)
Sum(values) == IF values = <<>> THEN 0 ELSE Head(values) + Sum(Tail(values))

\* avg, Math.max and Math.min of a non-empty list of numbers; avg is in
\* hundredths, as toFixed(2) prints it
Aggregate(values) ==
  LET n == Len(values)
      S == {values[i] : i \in 1..n}
  IN [count |-> n,
      avg |-> (200 * Sum(values) + n) \div (2 * n),
      max |-> CHOOSE x \in S : \A y \in S : y <= x,
      min |-> CHOOSE x \in S : \A y \in S : x <= y]

NoAggregate == [count |-> 0]

\* analyzeCommand: what it prints of the entries
analyzeCommand(logs) ==
  LET errors == SelectSeq(logs, IsErrorForAnalyze)
      perfLogs == SelectSeq(logs, IsPerfForAnalyze)
      withDuration == SelectSeq(perfLogs, HasDuration)
      durations == [i \in 1..Len(withDuration) |-> Prop(withDuration[i].data, "duration").n]
  IN [command |-> "analyze", exit |-> 0, help |-> FALSE, error |-> "none",
      total |-> Len(logs),
      errors |-> errors,
      shown |-> SubSeq(errors, 1, IF Len(errors) < 3 THEN Len(errors) ELSE 3),
      perfLogs |-> perfLogs,
      durations |-> IF Len(durations) > 0 THEN Aggregate(durations) ELSE NoAggregate]

\* errorsCommand: the entries it prints
errorsCommand(logs) ==
  [command |-> "errors", exit |-> 0, help |-> FALSE, error |-> "none",
   errors |-> SelectSeq(logs, IsErrorForErrors)]

\* const duration = log.data?.duration || log.data?.elapsed || log.data?.timing
DurationOf(log) ==
  OrElse(Prop(log.data, "duration"),
         OrElse(Prop(log.data, "elapsed"), Prop(log.data, "timing")))

\* operations[op]: the values pushed for the message op
DurationsOf(perfLogs, op) ==
  LET timed(log) == log.message = op /\ ToBoolean(DurationOf(log))
      picked == SelectSeq(perfLogs, timed)
  IN [i \in 1..Len(picked) |-> DurationOf(picked[i]).n]

\* perfCommand: the number of matches and the block printed per operation
perfCommand(logs) ==
  LET perfLogs == SelectSeq(logs, IsPerfForPerf)
      ops == {perfLogs[i].message : i \in 1..Len(perfLogs)}
      reported == {op \in ops : Len(DurationsOf(perfLogs, op)) > 0}
  IN [command |-> "perf", exit |-> 0, help |-> FALSE, error |-> "none",
      perfLogs |-> perfLogs,
      operations |-> [op \in reported |-> Aggregate(DurationsOf(perfLogs, op))]]

\* an argument that was not given on the command line
NoArg == ""

\* a numeric command-line option: not given, or given with a value
NoOpt == [given |-> FALSE, value |-> 0]
Opt(v) == [given |-> TRUE, value |-> v]

\* Variant of filterCommand: the last limit matches are printed.
filterCommandKeepsLast(logs, options) ==
  LET inNamespace(log) == log.namespace = options.namespace
      isAfter(log) == log.timestamp > options.after.value
      isBefore(log) == log.timestamp < options.before.value
      f1 == IF options.namespace /= NoArg THEN SelectSeq(logs, inNamespace) ELSE logs
      f2 == IF options.after.given THEN SelectSeq(f1, isAfter) ELSE f1
      f3 == IF options.before.given THEN SelectSeq(f2, isBefore) ELSE f2
      limit == IF options.limit.given THEN options.limit.value ELSE DefaultLimit
  IN [command |-> "filter", exit |-> 0, help |-> FALSE, error |-> "none",
      matched |-> Len(f3),
      printed |-> SubSeq(f3, IF limit < Len(f3) THEN Len(f3) - limit + 1 ELSE 1, Len(f3))]

\* filterCommand; --after, --before and --limit values are well-formed
\* times and non-negative integers, which new Date and parseInt convert to
\* the instant and the number they denote
filterCommand(logs, options) ==
  LET inNamespace(log) == log.namespace = options.namespace
      isAfter(log) == log.timestamp > options.after.value
      isBefore(log) == log.timestamp < options.before.value
      f1 == IF options.namespace /= NoArg THEN SelectSeq(logs, inNamespace) ELSE logs
      f2 == IF options.after.given THEN SelectSeq(f1, isAfter) ELSE f1
      f3 == IF options.before.given THEN SelectSeq(f2, isBefore) ELSE f2
      limit == IF options.limit.given THEN options.limit.value ELSE DefaultLimit
  IN [command |-> "filter", exit |-> 0, help |-> FALSE, error |-> "none",
      matched |-> Len(f3),
      printed |-> SubSeq(f3, 1, IF limit < Len(f3) THEN limit ELSE Len(f3))]

\* statsCommand: the counts it prints
statsCommand(logs) ==
  [command |-> "stats", exit |-> 0, help |-> FALSE, error |-> "none",
   total |-> Len(logs),
   requestIds |-> Cardinality({logs[i].requestId : i \in 1..Len(logs)} \ {NoRequest})]

\* tailCommand: logs.slice(-50)
tailCommand(logs) ==
  LET n == Len(logs)
  IN [command |-> "tail", exit |-> 0, help |-> FALSE, error |-> "none",
      printed |-> SubSeq(logs, IF n > DefaultLimit THEN n - DefaultLimit + 1 ELSE 1, n)]

LogPath == "debug.log"

Commands == {"analyze", "filter", "stats", "tail", "errors", "perf"}

\* process.exit(1) after console.error, with or without printHelp()
Failure(command, error, help) ==
  [command |-> command, exit |-> 1, help |-> help, error |-> error]

\* Variant of main: the command is looked at before the file.
mainCommandFirst(command, filePath, options) ==
  IF command = NoArg \/ command = "help"
  THEN [command |-> command, exit |-> 0, help |-> TRUE, error |-> "none"]
  ELSE IF command \notin Commands
  THEN Failure(command, "unknown command", TRUE)
  ELSE IF filePath = NoArg
  THEN Failure(command, "no file path", TRUE)
  ELSE IF ~logExists
  THEN Failure(command, "file not found", FALSE)
  ELSE LET logs == readLogFile(file)
       IN CASE command = "analyze" -> analyzeCommand(logs)
            [] command = "filter" -> filterCommand(logs, options)
            [] command = "stats" -> statsCommand(logs)
            [] command = "tail" -> tailCommand(logs)
            [] command = "errors" -> errorsCommand(logs)
            [] OTHER -> perfCommand(logs)

\* main(): what one run of the CLI prints and its exit code
main(command, filePath, options) ==
  IF command = NoArg \/ command = "help"
  THEN [command |-> command, exit |-> 0, help |-> TRUE, error |-> "none"]
  ELSE IF filePath = NoArg
  THEN Failure(command, "no file path", TRUE)
  ELSE IF ~logExists
  THEN Failure(command, "file not found", FALSE)
  ELSE LET logs == readLogFile(file)
       IN CASE command = "analyze" -> analyzeCommand(logs)
            [] command = "filter" -> filterCommand(logs, options)
            [] command = "stats" -> statsCommand(logs)
            [] command = "tail" -> tailCommand(logs)
            [] command = "errors" -> errorsCommand(logs)
            [] command = "perf" -> perfCommand(logs)
            [] OTHER -> Failure(command, "unknown command", TRUE)

\* The entries a file may hold, before their timestamp is set.
Entry(namespace, message, data) ==
  [namespace |-> namespace, message |-> message, data |-> data]

LogEntries ==
  { Entry("performance", "op", Obj(<<KV("duration", Num(10))>>)),
    Entry("api", "op", Obj(<<KV("duration", Num(20))>>)),
    Entry("api", "op", Obj(<<KV("duration", Num(30)), KV("user", Num(1))>>)),
    Entry("performance", "op", Undef),
    Entry("api", "idle", Obj(<<KV("duration", Num(0))>>)),
    Entry("api", "Unhandled exception", Undef),
    Entry("api", "Request FAILED", Obj(<<KV("error", Str("boom", 4))>>)),
    Entry("db", "query", Obj(<<KV("elapsed", Num(5)), KV("error", Str("", 0))>>)) }

\* the line the writer's flush writes for an entry, at time timestamp
LineOf(entry, timestamp) ==
  JSONstringify([timestamp |-> timestamp, namespace |-> entry.namespace,
                 message |-> entry.message, data |-> entry.data,
                 requestId |-> NoRequest])

\* the lines a file may hold
LinesAt(timestamp) ==
  {SessionMarker, BlankLine, CorruptLine}
    \cup {LineOf(e, timestamp) : e \in LogEntries}
    \cup {Indented(LineOf(e, timestamp)) : e \in {Entry("api", "idle", Undef)}}

FilterOptions ==
  [namespace : {NoArg, "api"},
   after : {NoOpt, Opt(1)},
   before : {NoOpt, Opt(3)},
   limit : {NoOpt, Opt(0), Opt(2)}]

\* no option on the command line
NoOptions == [namespace |-> NoArg, after |-> NoOpt, before |-> NoOpt, limit |-> NoOpt]

\* The writer's process has ended: its fields are those destroy leaves.
WriterEnded ==
  /\ mode = "full"
  /\ maxBufferSize = DefaultMaxBufferSize
  /\ buffer = <<>>
  /\ flushInterval = FALSE
  /\ fileStream = "null"
  /\ currentRequestId = NoRequest
  /\ errorLog = <<>>
  /\ thrown = FALSE
  /\ clock = 0
  /\ accepted = <<>>
  /\ last = [op |-> "destroy", outcome |-> "none", open |-> FALSE]
  /\ writesOnly = FALSE
  /\ requestCalls = 0

\* before the CLI runs: there is a log file, still empty here, or none
CliInit ==
  /\ WriterEnded
  /\ file = <<>>
  /\ logExists \in BOOLEAN
  /\ report = NoReport
  /\ heap = NoHeap
  /\ probe = NoProbe
  /\ NoBrowser
  /\ NoTracer

writerVars ==
  <<mode, maxBufferSize, buffer, flushInterval, fileStream, currentRequestId,
    errorLog, thrown, clock, accepted, last, writesOnly, requestCalls>>

\* the file was left with one more line
AppendLine ==
  /\ logExists
  /\ report = NoReport
  /\ Len(file) < MaxLines
  /\ \E line \in LinesAt(Len(file) + 1) : file' = Append(file, line)
  /\ UNCHANGED <<writerVars, heap, probe, logExists, report, localStorage, tracer>>

\* the file was left with a long run of entries, one per instant
AppendBurst ==
  /\ logExists
  /\ report = NoReport
  /\ file = <<>>
  /\ \E e \in {Entry("api", "idle", Undef)} :
       file' = [i \in 1..BurstLen |-> LineOf(e, i)]
  /\ UNCHANGED <<writerVars, heap, probe, logExists, report, localStorage, tracer>>

\* node example.js <command> <file> [options]
RunCli ==
  /\ report = NoReport
  /\ \E command \in Commands \cup {NoArg, "help", "bogus"},
        filePath \in {NoArg, LogPath} :
     \E options \in IF command = "filter" THEN FilterOptions ELSE {NoOptions} :
       report' = [argv |-> <<command, filePath>>, options |-> options]
                   @@ main(command, filePath, options)
  /\ UNCHANGED <<writerVars, file, heap, probe, logExists, localStorage, tracer>>

CliNext == AppendLine \/ AppendBurst \/ RunCli

CliSpec == CliInit /\ [][CliNext]_vars

\* ------------------------------------------------------------ DebugTracer
\* Bound on the number of lines the tracer prints on the console.
MaxConsole == 3

TracerNamespaces == {"api", "db"}

\* log(namespace, 'request', {status: 200})
LogData == {Obj(<<KV("status", Num(200))>>)}

\* a console.log line: of a log call, or of enable and disable
ConsoleLine(kind, namespace) == [kind |-> kind, namespace |-> namespace]

\* the writer's fields where the tracer has no writer
NoWriter ==
  /\ mode = "full"
  /\ maxBufferSize = DefaultMaxBufferSize
  /\ buffer = <<>>
  /\ flushInterval = FALSE
  /\ fileStream = "null"
  /\ currentRequestId = NoRequest
  /\ file = <<>>
  /\ errorLog = <<>>
  /\ thrown = FALSE
  /\ clock = 0
  /\ accepted = <<>>
  /\ last = [op |-> "none", outcome |-> "none", open |-> FALSE]
  /\ writesOnly = FALSE
  /\ requestCalls = 0

\* new DebugTracer(config): enabled and namespaces from the configuration or
\* from DEBUG; a writer with the default threshold if file output is enabled
TracerInit ==
  /\ globalEnabled \in BOOLEAN
  /\ enabledNamespaces \in SUBSET TracerNamespaces
  /\ consoleLines = <<>>
  /\ fileWriter \in BOOLEAN
  /\ IF fileWriter
     THEN \E cfgMode \in FileModes, ok \in BOOLEAN : construct(cfgMode, 0, ok)
     ELSE NoWriter
  /\ heap = NoHeap
  /\ probe = NoProbe
  /\ NoCli
  /\ NoBrowser

\* Variant of shouldLog: a namespace is logged only if it is in the set.
shouldLogListedOnly(namespace) ==
  globalEnabled /\ namespace \in enabledNamespaces

\* shouldLog
shouldLog(namespace) ==
  IF ~globalEnabled THEN FALSE
  ELSE IF Cardinality(enabledNamespaces) = 0 THEN TRUE
  ELSE namespace \in enabledNamespaces

\* the last log call that returned at once, since the last enable or disable
Gated(namespace) == [stage |-> "gated", namespace |-> namespace]

\* log(namespace, message, data)
logCall(namespace, data) ==
  IF ~shouldLog(namespace)
  THEN /\ probe' = Gated(namespace)
       /\ UNCHANGED <<writerVars, file, heap, logExists, report, localStorage,
                      tracer>>
  ELSE /\ Len(consoleLines) < MaxConsole
       /\ consoleLines' = Append(consoleLines, ConsoleLine("log", namespace))
       /\ UNCHANGED <<globalEnabled, enabledNamespaces, fileWriter>>
       /\ IF fileWriter
          THEN \E failAt \in 0..MaxWrites :
                 write([namespace |-> namespace, message |-> "request",
                        data |-> data], failAt)
          ELSE UNCHANGED <<writerVars, file, aux>>

TracerLog == \E namespace \in TracerNamespaces, data \in LogData : logCall(namespace, data)

\* enable(namespace); NoArg is enable()
enable(namespace) ==
  /\ Len(consoleLines) < MaxConsole
  /\ IF namespace # NoArg
     THEN /\ enabledNamespaces' = enabledNamespaces \cup {namespace}
          /\ consoleLines' = Append(consoleLines, ConsoleLine("enabled", namespace))
          /\ UNCHANGED globalEnabled
     ELSE /\ globalEnabled' = TRUE
          /\ enabledNamespaces' = {}
          /\ consoleLines' = Append(consoleLines, ConsoleLine("enabled all", NoArg))
  /\ probe' = NoProbe
  /\ UNCHANGED <<writerVars, file, heap, logExists, report, localStorage,
                 fileWriter>>

TracerEnable == \E namespace \in TracerNamespaces \cup {NoArg} : enable(namespace)

\* disable(namespace); NoArg is disable()
disable(namespace) ==
  /\ Len(consoleLines) < MaxConsole
  /\ IF namespace # NoArg
     THEN /\ enabledNamespaces' = enabledNamespaces \ {namespace}
          /\ consoleLines' = Append(consoleLines, ConsoleLine("disabled", namespace))
          /\ UNCHANGED globalEnabled
     ELSE /\ globalEnabled' = FALSE
          /\ consoleLines' = Append(consoleLines, ConsoleLine("disabled all", NoArg))
          /\ UNCHANGED enabledNamespaces
  /\ probe' = NoProbe
  /\ UNCHANGED <<writerVars, file, heap, logExists, report, localStorage,
                 fileWriter>>

TracerDisable == \E namespace \in TracerNamespaces \cup {NoArg} : disable(namespace)

\* this.fileWriter?.flush()
TracerFlush == IF fileWriter THEN ManualFlush ELSE UNCHANGED vars

\* this.fileWriter?.destroy()
TracerDestroy == IF fileWriter THEN destroy ELSE UNCHANGED vars

\* the writer's timer
TracerTimer == fileWriter /\ TimerTick

TracerNext ==
  \/ TracerLog
  \/ TracerEnable
  \/ TracerDisable
  \/ TracerFlush
  \/ TracerDestroy
  \/ TracerTimer

TracerSpec == TracerInit /\ [][TracerNext]_vars

\* ------------------------------------------ DebugTracer in the browser
\* (src/browser/index.js) with fileOutput enabled: entries are buffered and
\* flushed to the list stored under 'debug_tracer_logs'.
\* Bound on the number of log calls.
MaxLogs == 510

\* Bound on the log calls made one at a time, and the length of a burst.
MaxSingleLogs == 3
BurstSize == 50

BrowserMaxBufferSize == 100
MaxStored == 500

\* JSON.parse(JSON.stringify(entry)): an undefined data field is left out
StoredForm(entry) ==
  [timestamp |-> entry.timestamp, namespace |-> entry.namespace,
   message |-> entry.message, hasData |-> entry.data # Undef,
   data |-> entry.data]

\* logs.slice(-500)
Recent(logs) ==
  IF Len(logs) > MaxStored
  THEN SubSeq(logs, Len(logs) - MaxStored + 1, Len(logs))
  ELSE logs

\* Variant of flushToLocalStorage: the list keeps its first 500 entries.
flushToLocalStorageKeepsOldest(buf, stored, fails) ==
  IF Len(buf) = 0
  THEN [buffer |-> buf, localStorage |-> stored, outcome |-> "none"]
  ELSE IF fails
  THEN [buffer |-> buf, localStorage |-> stored, outcome |-> "failed"]
  ELSE LET logs == stored \o [i \in 1..Len(buf) |-> StoredForm(buf[i])]
       IN [buffer |-> <<>>,
           localStorage |-> SubSeq(logs, 1, IF Len(logs) > MaxStored
                                            THEN MaxStored ELSE Len(logs)),
           outcome |-> "flushed"]

\* flushToLocalStorage(); fails: getItem, JSON.parse or setItem throws
flushToLocalStorage(buf, stored, fails) ==
  IF Len(buf) = 0
  THEN [buffer |-> buf, localStorage |-> stored, outcome |-> "none"]
  ELSE IF fails
  THEN [buffer |-> buf, localStorage |-> stored, outcome |-> "failed"]
  ELSE [buffer |-> <<>>,
        localStorage |-> Recent(stored \o [i \in 1..Len(buf) |-> StoredForm(buf[i])]),
        outcome |-> "flushed"]

\* whether the environment may make this storage access fail
StorageFails == IF Len(errorLog) < MaxFailures THEN BOOLEAN ELSE {FALSE}

\* new DebugTracer({enabled, fileOutput: {enabled: true}}): startFileWriter
\* sets the interval and the beforeunload listener
BrowserInit ==
  /\ mode = "full"
  /\ maxBufferSize = BrowserMaxBufferSize
  /\ buffer = <<>>
  /\ flushInterval = TRUE
  /\ fileStream = "null"
  /\ currentRequestId = NoRequest
  /\ file = <<>>
  /\ errorLog = <<>>
  /\ thrown = FALSE
  /\ clock = 0
  /\ accepted = <<>>
  /\ last = [op |-> "construct", outcome |-> "none", open |-> FALSE]
  /\ writesOnly = FALSE
  /\ requestCalls = 0
  /\ heap = NoHeap
  /\ probe = NoProbe
  /\ NoCli
  /\ localStorage = NoItem
  /\ globalEnabled \in BOOLEAN
  /\ enabledNamespaces = {}
  /\ consoleLines = <<>>
  /\ fileWriter = TRUE

\* what the browser actions leave alone; console.log lines are not recorded
browserFrame ==
  <<mode, maxBufferSize, fileStream, currentRequestId, file, thrown,
    writesOnly, requestCalls, heap, probe, logExists, report, tracer>>

\* a flushToLocalStorage() call, named op in the history, on the buffer buf
StorageFlush(op, buf, fails) ==
  LET r == flushToLocalStorage(buf, localStorage, fails)
  IN /\ buffer' = r.buffer
     /\ localStorage' = r.localStorage
     /\ errorLog' = IF r.outcome = "failed" THEN Append(errorLog, "storage")
                    ELSE errorLog
     /\ last' = [op |-> op, outcome |-> r.outcome, open |-> FALSE]

\* the page is still there
PageOpen == last.op # "unload"

\* writeToBuffer(namespace, args) on the tracer state st: the entry is
\* pushed and, at the threshold, flushed
writeToBuffer(st, fails) ==
  LET entry == [timestamp |-> st.clock + 1, namespace |-> "api",
                message |-> "request", data |-> Undef]
      pushed == Append(st.buffer, entry)
      r == IF Len(pushed) >= maxBufferSize
           THEN flushToLocalStorage(pushed, st.localStorage, fails)
           ELSE [buffer |-> pushed, localStorage |-> st.localStorage,
                 outcome |-> "none"]
  IN [buffer |-> r.buffer, localStorage |-> r.localStorage,
      failures |-> IF r.outcome = "failed" THEN st.failures + 1 ELSE st.failures,
      accepted |-> Append(st.accepted, entry),
      clock |-> st.clock + 1, outcome |-> r.outcome]

\* n log calls in a row, no timer tick between them; the storage fails at
\* the first failing flushes that the calls trigger
RECURSIVE logCalls(_, _, _)
logCalls(st, n, failing) ==
  LET next == IF ~shouldLog("api")
              THEN [st EXCEPT !.clock = @ + 1, !.outcome = "none"]
              ELSE writeToBuffer(st, failing > st.failures)
  IN \* each call advances the clock by one; the test has the state after
     \* this call computed before the next call is looked at
     IF n > 0 /\ next.clock = st.clock + 1
     THEN logCalls(next, n - 1, failing)
     ELSE st

\* the numbers of log calls made in a row: one, while few calls were made, or
\* a burst
RunLengths ==
  (IF clock < MaxSingleLogs THEN {1} ELSE {}) \cup {BurstSize}

\* log(namespace, 'request'), once or several times in a row
BrowserLog ==
  /\ PageOpen
  /\ \E n \in RunLengths, failing \in 0..MaxFailures :
       /\ clock + n <= MaxLogs
       /\ failing >= Len(errorLog)
       /\ LET st == logCalls([buffer |-> buffer, localStorage |-> localStorage,
                              failures |-> Len(errorLog), accepted |-> accepted,
                              clock |-> clock, outcome |-> "none"], n, failing)
          IN /\ buffer' = st.buffer
             /\ localStorage' = st.localStorage
             /\ errorLog' = [i \in 1..st.failures |-> "storage"]
             /\ accepted' = st.accepted
             /\ clock' = st.clock
             /\ last' = [op |-> "log", outcome |-> st.outcome, open |-> FALSE]
  /\ UNCHANGED <<flushInterval, browserFrame>>

\* the setInterval callback
BrowserTimer ==
  /\ PageOpen
  /\ flushInterval
  /\ \E fails \in StorageFails : StorageFlush("timer", buffer, fails)
  /\ UNCHANGED <<flushInterval, clock, accepted, browserFrame>>

\* the beforeunload listener
BrowserUnload ==
  /\ PageOpen
  /\ \E fails \in StorageFails : StorageFlush("unload", buffer, fails)
  /\ UNCHANGED <<flushInterval, clock, accepted, browserFrame>>

\* destroy(): clearInterval, then flushToLocalStorage
BrowserDestroy ==
  /\ PageOpen
  /\ flushInterval' = FALSE
  /\ \E fails \in StorageFails : StorageFlush("destroy", buffer, fails)
  /\ UNCHANGED <<clock, accepted, browserFrame>>

BrowserNext == BrowserLog \/ BrowserTimer \/ BrowserUnload \/ BrowserDestroy

BrowserSpec == BrowserInit /\ [][BrowserNext]_vars

\* ------------------------------------------------------------------ claims
\* the lines a flush writes for the entries of seq
Lines(seq) == [i \in 1..Len(seq) |-> JSONstringify(seq[i])]

IsEntryLine(line) == line.kind = "json"

\* the entry lines of the file, in file order
FileEntries == SelectSeq(file, IsEntryLine)

Count(seq, x) == Cardinality({i \in 1..Len(seq) : seq[i] = x})

InFile(entry) == Count(file, JSONstringify(entry)) > 0

Available == fileStream = "open"

\* the buffer a flush of this step works on: the buffer, with the entry this
\* step's write pushed
Pending ==
  IF accepted' # accepted THEN Append(buffer, accepted'[Len(accepted')]) ELSE buffer

\* C1 (as stated): every accepted entry is, at any time, either once in the
\* buffer or once in the file, never twice and never in both.
C1_ExactlyOnce ==
  \A i \in 1..Len(accepted) :
    Count(buffer, accepted[i]) + Count(file, JSONstringify(accepted[i])) = 1

\* C1 (amended): every accepted entry is pushed once and stays in the
\* buffer or the file; while no flush has failed it is in exactly one of
\* them, once; each failed flush can add one more copy to the file.
C1_OncePerFlush ==
  \A i \in 1..Len(accepted) :
    LET inBuffer == Count(buffer, accepted[i])
        inFile == Count(file, JSONstringify(accepted[i]))
    IN /\ inBuffer <= 1
       /\ inBuffer + inFile >= 1
       /\ inFile <= 1 + FlushErrors
       /\ FlushErrors = 0 => inBuffer + inFile = 1

C1_Witness ==
  /\ FlushErrors = 0
  /\ Len(buffer) >= 1
  /\ Len(FileEntries) >= 2
  /\ last.op = "destroy"

\* C2 (as stated): with an available target, the file's entries followed by
\* the buffer's are the accepted entries in acceptance order.
C2_FileThenBuffer ==
  Available => FileEntries \o Lines(buffer) = Lines(accepted)

\* C2 (amended): the same, on a writer none of whose flushes has failed.
C2_FileThenBufferNoFailure ==
  (Available /\ FlushErrors = 0) => FileEntries \o Lines(buffer) = Lines(accepted)

C2_Witness ==
  /\ Available
  /\ FlushErrors = 0
  /\ Len(FileEntries) >= 2
  /\ Len(buffer) >= 1

\* C3 (as stated): after only write calls, once maxBufferSize entries were
\* accepted they are all in the file and the buffer is empty; before that
\* nothing is in the file.
C3_CapacityTrigger ==
  /\ (writesOnly /\ Len(accepted) = maxBufferSize) =>
       (buffer = <<>> /\ FileEntries = Lines(accepted))
  /\ (writesOnly /\ Len(accepted) < maxBufferSize) => FileEntries = <<>>

\* C3 (amended): the same for a writer whose target is available and whose
\* capacity flush does not fail; before the threshold is reached no write
\* flushes, whatever the target.
C3_CapacityTriggerAvailable ==
  /\ (writesOnly /\ Len(accepted) = maxBufferSize /\ Available /\ FlushErrors = 0) =>
       (buffer = <<>> /\ FileEntries = Lines(accepted))
  /\ (writesOnly /\ Len(accepted) < maxBufferSize) =>
       (FileEntries = <<>> /\ buffer = accepted)

C3_Witness ==
  /\ writesOnly
  /\ Available
  /\ FlushErrors = 0
  /\ last.op = "write"
  /\ last.outcome = "flushed"
  /\ maxBufferSize > 1
  /\ Len(accepted) = maxBufferSize

\* C4 (as stated): between operations the buffer is always shorter than the
\* threshold.
C4_BufferBelowThreshold == Len(buffer) < maxBufferSize

\* C4 (amended): the buffer is shorter than the threshold while the target
\* is available and no flush has failed.
C4_BufferBelowThresholdAvailable ==
  (Available /\ FlushErrors = 0) => Len(buffer) < maxBufferSize

C4_Witness ==
  /\ Available
  /\ FlushErrors = 0
  /\ Len(buffer) = maxBufferSize - 1
  /\ Len(buffer) >= 1
  /\ Len(accepted) > maxBufferSize

AllAcceptedInFile == \A i \in 1..Len(accepted) : InFile(accepted[i])

\* C5 (as stated): when destroy returns the timer is cancelled, the stream
\* released, every accepted entry is in the file and the buffer is empty; no
\* timer flush runs once the timer is cancelled.
C5_ShutdownFlushesAll ==
  /\ last.op = "destroy" =>
       /\ ~flushInterval
       /\ fileStream = "null"
       /\ buffer = <<>>
       /\ AllAcceptedInFile
  /\ ~flushInterval => last.op # "timer"

\* C5 (amended): when destroy returns the timer is cancelled and the stream
\* released; if the target was available and the final flush did not fail,
\* every accepted entry is in the file and the buffer is empty; no timer
\* flush runs once the timer is cancelled.
C5_ShutdownFlushesIfAvailable ==
  /\ last.op = "destroy" =>
       /\ ~flushInterval
       /\ fileStream = "null"
       /\ (last.open /\ last.outcome # "failed") =>
            (buffer = <<>> /\ AllAcceptedInFile)
  /\ ~flushInterval => last.op # "timer"

C5_Witness ==
  /\ last.op = "destroy"
  /\ last.open
  /\ last.outcome = "flushed"
  /\ Len(accepted) >= 2
  /\ Len(FileEntries) >= 2

\* C6 (as stated): under FairSpec, on a writer that is not shut down every
\* accepted entry is eventually in the file.
C6_EventuallyWritten ==
  \A i \in 1..MaxWrites :
    (Len(accepted) >= i /\ flushInterval)
      ~> ((Len(accepted) >= i /\ InFile(accepted[i])) \/ ~flushInterval)

\* C6 (amended): under FairSpec, from every state of a writer whose target
\* is available, a state is reached where every accepted entry is in the
\* file, unless a flush fails first.
C6_EventuallyWrittenIfAvailable ==
  (Available /\ last.outcome # "failed")
    ~> (AllAcceptedInFile \/ last.outcome = "failed")

C6_Witness ==
  /\ last.op = "timer"
  /\ last.outcome = "flushed"
  /\ writesOnly = FALSE
  /\ Len(accepted) < maxBufferSize
  /\ Len(accepted) >= 1
  /\ AllAcceptedInFile

InitFailed == Len(errorLog) >= 1 /\ errorLog[1] = "init"

C10_FlushWritesAllAndClears ==
  [][ IF file' # file
      THEN file' = file \o Lines(Pending) /\ buffer' = <<>>
      ELSE buffer' = Pending
    ]_vars

\* C10 (amended): a flush that does not fail writes the whole pending buffer
\* in order and leaves it empty; a flush that fails writes a proper prefix
\* of it and keeps it whole; a step that does not flush keeps the pending
\* entries and the file.
C10_FlushAtomicUnlessFailed ==
  [][ /\ (last'.outcome = "flushed" =>
            file' = file \o Lines(Pending) /\ buffer' = <<>> /\ Pending # <<>>)
      /\ (last'.outcome = "failed" =>
            /\ buffer' = Pending
            /\ \E k \in 0..(Len(Pending) - 1) :
                 file' = file \o Lines(SubSeq(Pending, 1, k)))
      /\ (last'.outcome = "none" => file' = file /\ buffer' = Pending)
    ]_vars

C10_Witness ==
  /\ last.op = "timer"
  /\ last.outcome = "flushed"
  /\ FlushErrors = 0
  /\ maxBufferSize <= MaxWrites
  /\ Len(FileEntries) > maxBufferSize

\* the writer's own fields and what it has written
WriterState ==
  <<mode, maxBufferSize, buffer, flushInterval, fileStream, currentRequestId,
    file, errorLog>>

\* C14: a destroy call on a writer that was already destroyed lets nothing
\* be thrown, writes nothing to the file and leaves every field of the
\* writer as the first call left it: interval cleared, stream null.
C14_DestroyIdempotent ==
  [][ (~flushInterval /\ last'.op = "destroy") =>
        /\ WriterState' = WriterState
        /\ ~flushInterval' /\ fileStream' = "null"
        /\ thrown' = thrown
    ]_vars

\* after a second destroy, on a writer that had a stream and whose final
\* flush failed, so that the second call finds entries in the buffer
C14_Witness ==
  /\ ~InitFailed
  /\ last.op = "destroy"
  /\ ~last.open
  /\ buffer # <<>>
  /\ Len(FileEntries) >= 1

\* what a caller can observe of the writer after a call
Observable ==
  <<buffer, file, currentRequestId, flushInterval, fileStream, errorLog, thrown>>

RejectedHasNoEffect ==
  [][ last'.op = "rejected" => Observable' = Observable /\ accepted' = accepted ]_vars

\* the three calls were made on a minimal writer of threshold 2, and nothing
\* else flushed
ScenarioRan(calls) ==
  mode = "minimal" /\ maxBufferSize = 2 /\ writesOnly /\ clock = calls

\* the messages of the persisted entries, in file order
PersistedMessages == [i \in 1..Len(FileEntries) |-> FileEntries[i].message]

\* C11 (as stated): a rejected write changes nothing a caller can observe,
\* and the three calls on a minimal writer of threshold 2 leave exactly the
\* two performance entries in the file, written by the auto-flush of the
\* third call.
C11_RejectedNoEffectTwoPersisted ==
  /\ RejectedHasNoEffect
  /\ [](ScenarioRan(2) => FileEntries = <<>>)
  /\ [](ScenarioRan(3) =>
          PersistedMessages = <<"op1", "op2">> /\ buffer = <<>>)

\* C11 (amended): a rejected write changes nothing a caller can observe;
\* the three calls leave the first performance entry alone in the buffer
\* until the third call, whose auto-flush writes exactly the two performance
\* entries to the file when the target is available and no write of that
\* flush fails.
C11_RejectedNoEffectTwoPersistedIfAvailable ==
  /\ RejectedHasNoEffect
  /\ [](ScenarioRan(2) => FileEntries = <<>> /\ buffer = accepted /\ Len(buffer) = 1)
  /\ [](ScenarioRan(3) =>
          /\ Len(accepted) = 2
          /\ (Available /\ FlushErrors = 0) =>
               /\ PersistedMessages = <<"op1", "op2">>
               /\ FileEntries = Lines(accepted)
               /\ buffer = <<>>
          /\ ~Available => file = <<>> /\ buffer = accepted)

C11_Witness ==
  /\ ScenarioRan(3)
  /\ Available
  /\ PersistedMessages = <<"op1", "op2">>
  /\ FileEntries[2].data = Obj(<<KV("duration", Num(20))>>)
  /\ buffer = <<>>

\* the entry this step's write accepted
Written == accepted'[Len(accepted')]

\* entries already buffered or written are not altered: the file only grows,
\* by lines of pending entries, and the buffer holds pending entries only
EntriesKept ==
  /\ Len(file') >= Len(file)
  /\ SubSeq(file', 1, Len(file)) = file
  /\ \A i \in (Len(file) + 1)..Len(file') :
       \E j \in 1..Len(Pending) : file'[i] = JSONstringify(Pending[j])
  /\ \A i \in 1..Len(buffer') : \E j \in 1..Len(Pending) : buffer'[i] = Pending[j]

\* C12 (as stated): an entry is serialised with metadata.requestId equal to
\* the id current at its write call whenever that id is not null, and
\* without metadata when it is null; setRequestId changes neither the buffer
\* nor the file, and no step alters an entry already buffered or written.
C12_MetadataIsCurrentId ==
  [][ /\ accepted' # accepted =>
           LET line == JSONstringify(Written)
           IN IF currentRequestId # NoRequest
              THEN line.hasMetadata /\ line.requestId = currentRequestId
              ELSE ~line.hasMetadata
      /\ last'.op = "setRequestId" => buffer' = buffer /\ file' = file
      /\ EntriesKept
    ]_vars

\* C12 (amended): the same, where an id that is the empty string counts as
\* no id: the entry is serialised without metadata when the current id is
\* null or ''.
C12_MetadataIsCurrentNonEmptyId ==
  [][ /\ accepted' # accepted =>
           LET line == JSONstringify(Written)
           IN IF currentRequestId \notin {NoRequest, EmptyRequestId}
              THEN line.hasMetadata /\ line.requestId = currentRequestId
              ELSE ~line.hasMetadata
      /\ last'.op = "setRequestId" => buffer' = buffer /\ file' = file
      /\ EntriesKept
    ]_vars

\* an entry written under "r1" is in the file with its metadata, and a later
\* one written under '' carries none
C12_Witness ==
  /\ last.op = "write"
  /\ currentRequestId = EmptyRequestId
  /\ Len(accepted) = 2
  /\ accepted[1].requestId \in RequestIds
  /\ InFile(accepted[1])
  /\ ~JSONstringify(accepted[2]).hasMetadata

\* the call has been made
Called == clock = 1

\* the call was accepted: write built an entry
WasAccepted == Len(accepted) = 1

\* the keys of a mapping; no other data value has any
KeysOf(data) ==
  IF data.t = "obj" THEN {data.kv[i].k : i \in 1..Len(data.kv)} ELSE {}

\* C15: in minimal mode the call is accepted if and only if its namespace is
\* exactly "performance" or "timing", or its data is a mapping with a
\* duration or an elapsed key; whatever the namespace and the data.
C15_MinimalAcceptsIff ==
  (mode = "minimal" /\ Called) =>
    (WasAccepted <=>
       \/ probe.namespace \in {"performance", "timing"}
       \/ KeysOf(probe.data) \cap {"duration", "elapsed"} # {})

\* accepted for its data alone, and persisted
C15_Witness ==
  /\ mode = "minimal" /\ Called
  /\ WasAccepted
  /\ probe.namespace = "api"
  /\ "elapsed" \in KeysOf(probe.data)
  /\ Len(FileEntries) = 1

\* C18: in detailed mode the call is accepted if and only if its namespace
\* is not exactly "trace", "verbose" or "debug", whatever the data; in full
\* mode it is accepted.
C18_DetailedAndFullAccept ==
  /\ (mode = "detailed" /\ Called) =>
       (WasAccepted <=> probe.namespace \notin {"trace", "verbose", "debug"})
  /\ (mode = "full" /\ Called) => WasAccepted

\* a namespace that differs from a skipped one by case only is accepted
\* and persisted
C18_Witness ==
  /\ mode = "detailed" /\ Called
  /\ probe.namespace = "Performance"
  /\ WasAccepted
  /\ Len(FileEntries) = 1

\* the allow-list of minimal mode
AllowList == {"duration", "elapsed", "timing", "error", "status", "count"}

\* value is what the mapping data holds under key
HoldsUnder(data, key, value) ==
  \E i \in 1..Len(data.kv) : data.kv[i].k = key /\ data.kv[i].v = value

\* C16: in minimal mode, when the data of the call contains duration, the
\* persisted entry has a data field that is a mapping whose keys are exactly
\* the allow-listed keys of the input, each once and with the input's value.
C16_MinimalKeepsAllowListed ==
  (mode = "minimal" /\ "duration" \in KeysOf(probe.data)) =>
    \A i \in 1..Len(FileEntries) :
      LET line == FileEntries[i]
      IN /\ line.hasData
         /\ line.data.t = "obj"
         /\ KeysOf(line.data) = KeysOf(probe.data) \cap AllowList
         /\ Len(line.data.kv) = Cardinality(KeysOf(line.data))
         /\ \A j \in 1..Len(line.data.kv) :
              HoldsUnder(probe.data, line.data.kv[j].k, line.data.kv[j].v)

\* persisted from an input that had all six allow-listed keys and others
C16_Witness ==
  /\ mode = "minimal"
  /\ Len(FileEntries) = 1
  /\ {"user", "path"} \subseteq KeysOf(probe.data)
  /\ KeysOf(FileEntries[1].data) = AllowList
  /\ HoldsUnder(FileEntries[1].data, "duration", Null)

\* C17: in minimal mode, when the data of an accepted call holds none of the
\* allow-listed keys (it is null, a scalar, an array or a mapping without
\* them), the entry is persisted without a data field.
C17_MinimalNoAllowListedNoData ==
  (mode = "minimal" /\ KeysOf(probe.data) \cap AllowList = {}) =>
    \A i \in 1..Len(FileEntries) : ~FileEntries[i].hasData

\* the values directly inside a value
Children(data) ==
  IF data.t = "arr" THEN {data.items[i] : i \in 1..Len(data.items)}
  ELSE IF data.t = "obj" THEN {data.kv[i].v : i \in 1..Len(data.kv)}
  ELSE {}

Max(S) == CHOOSE x \in S : \A y \in S : y <= x

\* how deep a value nests: 0 for a scalar, one more than its deepest child
\* for an array or a mapping
RECURSIVE Nesting(_)
Nesting(data) ==
  IF data.t \in {"arr", "obj"}
  THEN 1 + Max({0} \cup {Nesting(c) : c \in Children(data)})
  ELSE 0

\* the values found d levels below the top of a value
RECURSIVE AtDepth(_, _)
AtDepth(data, d) ==
  IF d = 0 THEN {data}
  ELSE UNION {AtDepth(c, d - 1) : c \in Children(data)}

Marker == [t |-> "str", s |-> "[truncated]", keep |-> 11, suffix |-> ""]

\* a value with everything d levels below its top replaced by the marker
RECURSIVE Cut(_, _)
Cut(data, d) ==
  IF d = 0 THEN Marker
  ELSE IF data.t = "arr"
  THEN [t |-> "arr", items |-> [i \in 1..Len(data.items) |-> Cut(data.items[i], d - 1)]]
  ELSE IF data.t = "obj"
  THEN [t |-> "obj",
        kv |-> [i \in 1..Len(data.kv) |->
                  [k |-> data.kv[i].k, v |-> Cut(data.kv[i].v, d - 1)]]]
  ELSE data

\* C19: in detailed mode no persisted data nests deeper than 3 and every
\* value at depth 3 is the truncation marker; a payload nested 5 deep or
\* more is persisted as itself down to depth 3, cut there.
C19_DetailedTruncatesAtDepth3 ==
  mode = "detailed" =>
    \A i \in 1..Len(FileEntries) :
      LET line == FileEntries[i]
      IN line.hasData =>
           /\ Nesting(line.data) <= 3
           /\ AtDepth(line.data, 3) \subseteq {Marker}
           /\ Nesting(probe.data) >= 5 =>
                /\ line.data = Cut(probe.data, 3)
                /\ AtDepth(line.data, 3) = {Marker}

\* five mappings one inside the other, persisted as three around the marker
C19_Witness ==
  /\ mode = "detailed"
  /\ Len(FileEntries) = 1
  /\ Nesting(probe.data) >= 5
  /\ probe.data.t = "obj"
  /\ FileEntries[1].data =
       Obj(<<KV("level", Obj(<<KV("level", Obj(<<KV("level", Marker)>>))>>))>>)

\* the arrays in a value, the value included
RECURSIVE ArraysIn(_)
ArraysIn(data) ==
  (IF data.t = "arr" THEN {data} ELSE {})
    \cup UNION {ArraysIn(c) : c \in Children(data)}

\* C20: in detailed mode every persisted array has at most 5 elements; a
\* persisted top-level array holds the shaped forms of the first 5 elements
\* of the input, in order, and exactly 5 when the input has more.
C20_DetailedKeepsFirstFive ==
  mode = "detailed" =>
    \A i \in 1..Len(FileEntries) :
      LET line == FileEntries[i]
          n == Len(probe.data.items)
      IN line.hasData =>
           /\ \A a \in ArraysIn(line.data) : Len(a.items) <= 5
           /\ probe.data.t = "arr" =>
                /\ line.data.t = "arr"
                /\ Len(line.data.items) = (IF n > 5 THEN 5 ELSE n)
                /\ \A j \in 1..Len(line.data.items) :
                     line.data.items[j] = truncate(probe.data.items[j], 1)

\* the array of 20 numbers is persisted as [1, 2, 3, 4, 5]
C20_Witness ==
  /\ mode = "detailed"
  /\ Len(FileEntries) = 1
  /\ probe.data.t = "arr"
  /\ Len(probe.data.items) >= 20
  /\ FileEntries[1].data = Arr(<<Num(1), Num(2), Num(3), Num(4), Num(5)>>)

\* C13: in every mode the persisted entry has the data as shaped from the
\* argument as it was when write was called, whatever the caller assigns to
\* the object afterwards.
C13_PersistedAsWritten ==
  \A i \in 1..Len(FileEntries) :
    /\ FileEntries[i].hasData
    /\ FileEntries[i].data = processData(mode, probe.data)

\* the keys of a mapping, in enumeration order
KeySeq(data) == [i \in 1..Len(data.kv) |-> data.kv[i].k]

MarkerPair == [k |-> "...", v |-> [t |-> "str", s |-> "truncated", keep |-> 9, suffix |-> ""]]

\* C21 (as stated): in detailed mode a mapping of 15 keys is persisted with
\* 11 keys, the 11th being the truncation marker.
C21_FifteenKeysGiveEleven ==
  (mode = "detailed" /\ probe.data.t = "obj" /\ Len(probe.data.kv) = 15) =>
    \A i \in 1..Len(FileEntries) :
      LET out == FileEntries[i].data.kv
      IN Len(out) = 11 /\ out[11] = MarkerPair

\* C21 (amended): in detailed mode a mapping of 15 keys or more is persisted
\* with 12 keys: its first 11 keys in order, with their values, and the
\* truncation marker as the 12th.
C21_FifteenKeysGiveTwelve ==
  (mode = "detailed" /\ probe.data.t = "obj" /\ Len(probe.data.kv) >= 15) =>
    \A i \in 1..Len(FileEntries) :
      LET out == FileEntries[i].data.kv
      IN /\ Len(out) = 12
         /\ SubSeq(out, 1, 11) = SubSeq(probe.data.kv, 1, 11)
         /\ out[12] = MarkerPair

C21_Witness ==
  /\ mode = "detailed"
  /\ Len(FileEntries) = 1
  /\ probe.data.t = "obj"
  /\ Len(probe.data.kv) >= 15
  /\ Len(FileEntries[1].data.kv) = 12
  /\ FileEntries[1].data.kv[11] = [k |-> "k11", v |-> Num(11)]

\* the mappings in a value, the value included
RECURSIVE MappingsIn(_)
MappingsIn(data) ==
  (IF data.t = "obj" THEN {data} ELSE {})
    \cup UNION {MappingsIn(c) : c \in Children(data)}

\* C22: in detailed mode a mapping of at most 11 keys is persisted with all
\* its keys in order and no marker key; a mapping of more than 11 keys is
\* persisted with its first 11 keys in order followed by the marker key,
\* once, and none of its later keys; no persisted mapping, nested ones
\* included, has more than 11 keys besides the marker.
C22_DetailedKeepsFirstElevenKeys ==
  (mode = "detailed" /\ probe.data.t = "obj") =>
    \A i \in 1..Len(FileEntries) :
      LET in == probe.data
          out == FileEntries[i].data
      IN /\ out.t = "obj"
         /\ IF Len(in.kv) <= 11
            THEN KeySeq(out) = KeySeq(in) /\ "..." \notin KeysOf(out)
            ELSE /\ KeySeq(out) = SubSeq(KeySeq(in), 1, 11) \o <<"...">>
                 /\ out.kv[12] = MarkerPair
                 /\ \A j \in 12..Len(in.kv) : in.kv[j].k \notin KeysOf(out)
         /\ \A m \in MappingsIn(out) :
              /\ Cardinality(KeysOf(m) \ {"..."}) <= 11
              /\ Len(m.kv) <= 12

\* a mapping of exactly 12 keys loses its last key to the marker
C22_Witness ==
  /\ mode = "detailed"
  /\ Len(FileEntries) = 1
  /\ probe.data.t = "obj"
  /\ Len(probe.data.kv) = 12
  /\ KeysOf(FileEntries[1].data) = (KeysOf(probe.data) \ {"k12"}) \cup {"..."}

\* the first character of a line that is not white space ("" if none)
FirstNonWhitespace(line) ==
  CASE line.kind \in {"json", "corrupt"} -> "{"
    [] line.kind = "indented" /\ line.line.kind \in {"json", "corrupt"} -> "{"
    [] line.kind = "marker" -> "="
    [] OTHER -> ""

\* the lines of the file that hold the text of an entry from their first column
EntryLines == SelectSeq(file, LAMBDA line : line.kind = "json")

\* the CLI ran a command over the file and the command reported
Ran(command) == report.command = command /\ report.error = "none"

\* C23: the reader never fails on a bad line: whatever lines the file holds,
\* a command that reads it ends with exit code 0, the entries it read are
\* those of the lines that parse, each from a line whose first non-blank
\* character is '{', in file order (tail prints the last 50 of them), and
\* marker, blank and unparsable lines are passed over.
C23_ReaderSkipsBadLines ==
  /\ \A command \in Commands : Ran(command) => report.exit = 0
  /\ Ran("tail") =>
       LET n == Len(EntryLines)
           first == IF n > DefaultLimit THEN n - DefaultLimit ELSE 0
       IN /\ Len(report.printed) = n - first
          /\ \A j \in 1..(n - first) :
               /\ report.printed[j] = JSONparse(EntryLines[first + j])
               /\ FirstNonWhitespace(EntryLines[first + j]) = "{"
  /\ Ran("stats") => report.total = Len(EntryLines)

\* tail read a file with an unparsable line, then a marker or blank line, then
\* an entry, and printed the entry
C23_Witness ==
  /\ Ran("tail")
  /\ Len(file) = 3
  /\ file[1] = CorruptLine
  /\ file[2] \in {SessionMarker, BlankLine}
  /\ file[3].kind = "json"
  /\ Len(report.printed) = 1

\* the entries the CLI reads from the file
Logs == readLogFile(file)

\* what analyze reports of the same file
Summary == analyzeCommand(Logs)

\* C24: errors uses the same error predicate as analyze: whatever the file
\* holds, the entries errors returns are exactly those analyze counts as
\* errors, in file order.
C24_ErrorsSameAsAnalyze ==
  Ran("errors") => report.errors = Summary.errors

\* C25: perf uses the same performance predicate as analyze: whatever the
\* file holds, the entries perf matches are exactly those analyze counts as
\* performance entries.
C25_PerfSameAsAnalyze ==
  Ran("perf") => report.perfLogs = Summary.perfLogs

\* the entry's data is a mapping with one of the timing keys, whatever its value
HasTimingKey(log) ==
  \/ HasKey(log.data, "duration")
  \/ HasKey(log.data, "elapsed")
  \/ HasKey(log.data, "timing")

\* the duration values present on the entries, in file order
DurationsPresent(logs) ==
  LET with == SelectSeq(logs, LAMBDA log : HasKey(log.data, "duration"))
  IN [i \in 1..Len(with) |-> Get(with[i].data, "duration").n]

\* C26: an entry is a performance entry for analyze exactly if its data has a
\* duration, elapsed or timing key, whatever integer the key holds, 0
\* included, and the average, minimum and maximum reported are those of all
\* the duration values present on these entries.
C26_PerformanceIffTimingKey ==
  Ran("analyze") =>
    LET expected == SelectSeq(Logs, HasTimingKey)
        values == DurationsPresent(expected)
    IN /\ report.perfLogs = expected
       /\ report.durations =
            IF Len(values) > 0 THEN Aggregate(values) ELSE NoAggregate

\* the numeric timing value of an entry: duration, else elapsed, else timing
TimingValues(log) ==
  LET present == SelectSeq(<<"duration", "elapsed", "timing">>,
                           LAMBDA key : HasKey(log.data, key)
                                        /\ Get(log.data, key).t = "num")
  IN [i \in 1..Len(present) |-> Get(log.data, present[i]).n]

\* C27: perf groups its matches by message and reports count, average,
\* minimum and maximum per group: a match without a numeric value counts in
\* its group but not in avg/min/max, a group without any numeric value is
\* left out of the report, and all matches are in the raw match count.
C27_PerfGroupsByMessage ==
  Ran("perf") =>
    LET matches == SelectSeq(Logs, IsPerfForPerf)
        group(op) == SelectSeq(matches, LAMBDA log : log.message = op)
        timed(op) == SelectSeq(group(op), LAMBDA log : TimingValues(log) # <<>>)
        values(op) == [i \in 1..Len(timed(op)) |-> Head(TimingValues(timed(op)[i]))]
        ops == {matches[i].message : i \in 1..Len(matches)}
    IN /\ report.perfLogs = matches
       /\ DOMAIN report.operations = {op \in ops : Len(timed(op)) > 0}
       /\ \A op \in DOMAIN report.operations :
            /\ report.operations[op].count = Len(group(op))
            /\ report.operations[op].avg = Aggregate(values(op)).avg
            /\ report.operations[op].min = Aggregate(values(op)).min
            /\ report.operations[op].max = Aggregate(values(op)).max

\* C28: filter returns, in file order, the entries that satisfy every
\* predicate supplied (namespace equal, timestamp strictly after, timestamp
\* strictly before; a predicate not supplied filters nothing), cut to the
\* first limit of them (50 if no limit is given): for every limit >= 0 the
\* result is the prefix of length min(limit, matches) of the matches.
C28_FilterPrefixOfMatches ==
  Ran("filter") =>
    LET options == report.options
        entries == [i \in 1..Len(EntryLines) |-> JSONparse(EntryLines[i])]
        passes(log) ==
          /\ options.namespace # NoArg => log.namespace = options.namespace
          /\ options.after.given => log.timestamp > options.after.value
          /\ options.before.given => log.timestamp < options.before.value
        matches == SelectSeq(entries, passes)
        limit == IF options.limit.given THEN options.limit.value ELSE DefaultLimit
        n == IF limit < Len(matches) THEN limit ELSE Len(matches)
    IN /\ report.matched = Len(matches)
       /\ report.printed = SubSeq(matches, 1, n)

\* filter --namespace api --limit 2 ran on a file with three api entries and
\* printed the first two
C28_Witness ==
  /\ Ran("filter")
  /\ report.options.namespace = "api"
  /\ report.options.limit = Opt(2)
  /\ report.matched = 3
  /\ Len(report.printed) = 2
  /\ report.printed[1].timestamp = 1

\* the command and the file argument of the run reported
Command == report.argv[1]
FilePath == report.argv[2]
NeedsNoFile == {NoArg, "help"}

\* C29: for every command and file argument: a missing file path or a
\* nonexistent file gives a non-zero exit with a message; an unknown command
\* gives a non-zero exit with the help text printed, whatever the file
\* argument; a known command on an existing file exits with 0.
C29_ExitBehaviour ==
  report # NoReport =>
    /\ report.exit \in {0, 1}
    /\ (FilePath = NoArg \/ ~logExists) =>
         report.exit # 0 /\ report.error # "none"
    /\ Command \notin Commands \cup NeedsNoFile =>
         report.exit # 0 /\ report.help
    /\ (Command \in Commands /\ FilePath # NoArg /\ logExists) =>
         report.exit = 0

\* C29 (amended): no command or help prints the help text and exits with 0,
\* whatever the file argument. For any other command, known or not: a missing
\* file path gives exit 1 with a message and the help text; a path to a
\* nonexistent file gives exit 1 with a file-not-found message and no help
\* text. On an existing file a known command exits with 0 and an unknown
\* command gives exit 1 with a message and the help text.
C29_ExitBehaviourFileCheckedFirst ==
  report # NoReport =>
    /\ report.exit \in {0, 1}
    /\ Command \in NeedsNoFile =>
         report.exit = 0 /\ report.help /\ report.error = "none"
    /\ (Command \notin NeedsNoFile /\ FilePath = NoArg) =>
         report.exit = 1 /\ report.error = "no file path" /\ report.help
    /\ (Command \notin NeedsNoFile /\ FilePath # NoArg /\ ~logExists) =>
         report.exit = 1 /\ report.error = "file not found" /\ ~report.help
    /\ (Command \in Commands /\ FilePath # NoArg /\ logExists) =>
         report.exit = 0 /\ report.error = "none" /\ report.command = Command
    /\ (Command \notin Commands \cup NeedsNoFile /\ FilePath # NoArg /\ logExists) =>
         report.exit = 1 /\ report.error = "unknown command" /\ report.help

\* an unknown command was run with a path to a file that does not exist
C29_Witness ==
  /\ report # NoReport
  /\ Command = "bogus"
  /\ FilePath = LogPath
  /\ ~logExists
  /\ report.exit = 1
  /\ ~report.help

\* line j of the console is a log line of a namespace that line i < j reports
\* as disabled, and no enable call printed a line between the two
LoggedWhileDisabled(i, j) ==
  /\ i < j
  /\ consoleLines[i].kind = "disabled"
  /\ consoleLines[j] = ConsoleLine("log", consoleLines[i].namespace)
  /\ \A k \in (i + 1)..(j - 1) :
       consoleLines[k].kind \notin {"enabled", "enabled all"}

\* C30: disable(ns) disables the namespace: from any state of the tracer,
\* after disable(ns) no log call for ns prints a console line (nor reaches
\* the writer, which log calls only after the console line) until a later
\* enable call.
C30_DisableSilencesNamespace ==
  \A i, j \in 1..Len(consoleLines) : ~LoggedWhileDisabled(i, j)

\* the console line of the last enable or disable call (none: kind "none")
RECURSIVE LastControl(_)
LastControl(lines) ==
  IF lines = <<>> THEN ConsoleLine("none", NoArg)
  ELSE IF lines[Len(lines)].kind # "log" THEN lines[Len(lines)]
  ELSE LastControl(SubSeq(lines, 1, Len(lines) - 1))

\* this step is a log call for namespace that returned without emitting
LogGated(namespace) ==
  /\ probe' = Gated(namespace)
  /\ probe # Gated(namespace)

\* this step is a log call for namespace that printed its console line
LogEmitted(namespace) ==
  consoleLines' = Append(consoleLines, ConsoleLine("log", namespace))

\* C31: enable(ns) enables the namespace: in any state of the tracer, also
\* after disable(), a log call for ns that follows enable(ns) is emitted;
\* after enable() every namespace is emitted; after disable() none is.
C31_EnableMakesNamespaceLog ==
  [][\A namespace \in TracerNamespaces :
       /\ LogGated(namespace) =>
            /\ LastControl(consoleLines) # ConsoleLine("enabled", namespace)
            /\ LastControl(consoleLines) # ConsoleLine("enabled all", NoArg)
       /\ LogEmitted(namespace) =>
            LastControl(consoleLines) # ConsoleLine("disabled all", NoArg)]_vars

\* the tracer is globally enabled and its set is empty or holds the namespace
Permits(namespace) ==
  globalEnabled /\ (enabledNamespaces = {} \/ namespace \in enabledNamespaces)

\* this step called the writer's write
WriteCalled == clock' = clock + 1

\* C32: gating is upstream of the writer. A log call reaches the writer's
\* write only when the tracer is globally enabled and its set is empty or
\* holds the namespace; in every other state the log call leaves buffer and
\* file as they are; and a call that reaches the writer is accepted or
\* rejected by the mode policy alone.
C32_GatingUpstreamOfWriter ==
  [][\A namespace \in TracerNamespaces :
       /\ (LogEmitted(namespace) /\ WriteCalled) => Permits(namespace)
       /\ (LogEmitted(namespace) /\ fileWriter) =>
            /\ WriteCalled
            /\ \A data \in LogData :
                 shouldWrite(mode, namespace, data)
                   <=> Len(accepted') = Len(accepted) + 1
       /\ LogGated(namespace) =>
            /\ ~Permits(namespace)
            /\ buffer' = buffer
            /\ file' = file
            /\ ~WriteCalled]_vars

\* a log call for db was emitted and buffered, then one for api was gated
C32_Witness ==
  /\ fileWriter
  /\ globalEnabled
  /\ enabledNamespaces = {"db"}
  /\ consoleLines = <<ConsoleLine("log", "db")>>
  /\ Len(buffer) = 1
  /\ probe = Gated("api")

\* lines a..b of the console are all lines of log calls
OnlyLogs(a, b) == \A k \in a..b : consoleLines[k].kind = "log"

\* a log call for m printed line i, the next enable or disable call was
\* enable(ns) for some ns and printed line j, and no other followed it
EmittedThenEnabled(m, i, j) ==
  /\ i < j
  /\ consoleLines[i] = ConsoleLine("log", m)
  /\ consoleLines[j].kind = "enabled"
  /\ OnlyLogs(i + 1, j - 1)
  /\ OnlyLogs(j + 1, Len(consoleLines))

\* C34: enable(ns) only widens logging: whatever the state of the tracer and
\* the namespace m, a log call for m that was emitted before enable(ns) is
\* emitted after it too.
C34_EnableOnlyWidens ==
  \A m \in TracerNamespaces :
    \A i, j \in 1..Len(consoleLines) :
      EmittedThenEnabled(m, i, j) => probe # Gated(m)

\* destroy has returned: it alone clears the interval
Destroyed == ~flushInterval

\* C33: after destroy has returned nothing is appended to the file again: the
\* target stays released and the timer cancelled, a later accepted write
\* appends its entry to the buffer, and every later flush, called or
\* triggered by the threshold, does nothing, so that no entry is persisted
\* and none leaves the buffer.
C33_NothingAppendedAfterDestroy ==
  [][Destroyed =>
       /\ file' = file
       /\ fileStream = "null" /\ fileStream' = "null"
       /\ Destroyed'
       /\ IF Len(accepted') = Len(accepted) + 1
          THEN buffer' = Append(buffer, accepted'[Len(accepted')])
          ELSE buffer' = buffer]_vars

\* after destroy, two writes were accepted by a writer of threshold 1: each
\* triggered a flush, and both entries are in the buffer
C33_Witness ==
  /\ Destroyed
  /\ maxBufferSize = 1
  /\ last.op = "write"
  /\ Len(buffer) = 2
  /\ Len(accepted) = 2

\* number, boolean, null, or a string of at most 200 characters
IsShortScalar(data) ==
  \/ data.t \in {"num", "bool", "null"}
  \/ data.t = "str" /\ data.keep <= 200

\* the first n elements of a sequence
FirstOf(seq, n) == SubSeq(seq, 1, IF Len(seq) < n THEN Len(seq) ELSE n)

\* a value without the array elements after the fifth and the pairs after
\* the eleventh, at every level
RECURSIVE Retained(_)
Retained(data) ==
  IF data.t = "arr"
  THEN LET items == FirstOf(data.items, 5)
       IN [t |-> "arr", items |-> [i \in 1..Len(items) |-> Retained(items[i])]]
  ELSE IF data.t = "obj"
  THEN LET kv == FirstOf(data.kv, 11)
       IN [t |-> "obj",
           kv |-> [i \in 1..Len(kv) |-> [k |-> kv[i].k, v |-> Retained(kv[i].v)]]]
  ELSE data

\* C35: in detailed mode the truncation marker replaces mappings and arrays
\* only: a number, boolean, null or string of at most 200 characters that is
\* reached at any depth, depth 3 included, is persisted unchanged at that
\* depth.
C35_ScalarLeavesUnchanged ==
  mode = "detailed" =>
    \A i \in 1..Len(FileEntries) :
      FileEntries[i].hasData =>
        \A d \in 0..3 :
          \A leaf \in AtDepth(Retained(probe.data), d) :
            IsShortScalar(leaf) => leaf \in AtDepth(FileEntries[i].data, d)

\* the entries flushed so far: those accepted and no longer in the buffer
Flushed == SubSeq(accepted, 1, Len(accepted) - Len(buffer))

\* this step's flush failed
StorageWriteFailed ==
  Len(errorLog') = Len(errorLog) + 1 /\ last'.outcome = "failed"

\* C36: browser tracer with fileOutput enabled: after any sequence of log
\* calls, threshold flushes, timer flushes and destroy, the stored list has
\* at most 500 entries and is exactly the last (up to 500) entries flushed,
\* in log order; a flush that succeeds leaves the buffer empty; a flush whose
\* storage access fails leaves the stored list and the buffer as they were,
\* the buffer with the entries just logged, for the next flush.
C36_StoredListIsRecentFlushed ==
  /\ [](/\ Len(localStorage) <= 500
        /\ buffer = SubSeq(accepted, Len(accepted) - Len(buffer) + 1, Len(accepted))
        /\ LET f == Len(Flushed)
               k == IF f < 500 THEN f ELSE 500
           IN localStorage = [i \in 1..k |-> StoredForm(Flushed[f - k + i])]
        /\ last.outcome = "flushed" => buffer = <<>>)
  /\ [][StorageWriteFailed =>
          /\ localStorage' = localStorage
          /\ buffer' = buffer \o SubSeq(accepted', Len(accepted) + 1, Len(accepted'))]_vars

\* more than 500 entries were flushed: the stored list holds 500 and no
\* longer the first entry logged
C36_Witness ==
  /\ Len(Flushed) > 500
  /\ Len(localStorage) = 500
  /\ localStorage[1].timestamp > 1
  /\ Len(errorLog) = 1
====
